---- MODULE Spec2Model ----
(***************************************************************************)
(* Zero compiler: source management (source.cpp), the lexer (lexer.cpp),   *)
(* the parser (parser.cpp), semantic analysis (sema.cpp, types.hpp),       *)
(* AST -> IR lowering (lowering.cpp, builder.hpp, ir.hpp) and the ZIR      *)
(* interpreter (interpreter.cpp, interpreter.hpp), as state machines over  *)
(* bounded families of source texts, token sequences and programs.         *)
(*                                                                         *)
(* std::vector storage is modelled with its capacity: a push_back at       *)
(* size = capacity moves the elements, and every reference taken before    *)
(* the move (IRBuilder::current_block_, the BasicBlock& locals of lower_if *)
(* and lower_while, the CallFrame& `current` of call_function) then points *)
(* at released storage.  A write through such a reference does not reach   *)
(* the live element; a read through it yields either the value the element *)
(* had when it was moved or an arbitrary word.  Growth policy and the      *)
(* outcome of such reads are fixed per build and chosen in Init.           *)
(***************************************************************************)
EXTENDS Integers, Sequences, FiniteSets, TLC

\* ------------------------------------------------------------------------
\* AST (ast.hpp).  A null child (std::unique_ptr == nullptr) is Null.
\* ------------------------------------------------------------------------
Null == [k |-> "null"]
Identifier(n) == [k |-> "id", name |-> n]
IntLiteral(v) == [k |-> "int", value |-> v]
FloatLiteral(n, d) == [k |-> "float", num |-> n, den |-> d]
BinaryExpr(o, l, r) == [k |-> "bin", op |-> o, left |-> l, right |-> r]
UnaryExpr(o, e) == [k |-> "un", op |-> o, operand |-> e]
CallExpr(c, a) == [k |-> "call", callee |-> c, args |-> a]
GroupExpr(e) == [k |-> "group", inner |-> e]

LetStmt(n, e) == [k |-> "let", name |-> n, type_annot |-> "none", init |-> e]
ReturnStmt(e) == [k |-> "return", value |-> e]
ExprStmt(e) == [k |-> "expr", expr |-> e]
IfStmt(c, t, e) == [k |-> "if", condition |-> c, then_branch |-> t, else_branch |-> e]
WhileStmt(c, b) == [k |-> "while", condition |-> c, body |-> b]
Block(b) == [k |-> "block", stmts |-> b]

Param(n, t) == [name |-> n, type |-> t]
FnDecl(n, ps, rt, b) == [name |-> n, params |-> ps, return_type |-> rt, body |-> b]

\* ------------------------------------------------------------------------
\* Types (types.hpp)
\* ------------------------------------------------------------------------
is_numeric(t) == t \in {"int", "float"}

types_compatible(a, b) ==
    IF a = "unknown" \/ b = "unknown" THEN TRUE ELSE a = b

binary_result_type(left, right) ==
    IF left = "unknown" THEN right
    ELSE IF right = "unknown" THEN left
    ELSE IF left = right THEN left
    ELSE IF is_numeric(left) /\ is_numeric(right)
         THEN (IF left = "float" \/ right = "float" THEN "float" ELSE "int")
    ELSE "unknown"

\* ast_to_type of lowering.cpp / ast_to_types of sema.cpp: the annotation
\* kinds map one to one; an absent annotation is "none".
ast_to_type(kind) ==
    IF kind \in {"int", "float", "void", "tensor"} THEN kind ELSE "unknown"

\* ------------------------------------------------------------------------
\* IR data model (ir.hpp)
\* ------------------------------------------------------------------------
InvalidValue == [id |-> 0, type |-> "unknown"]

valid(v) == v.id # 0

NoFloat == [num |-> 0, den |-> 1]

Instruction == [op |-> "nop", result |-> InvalidValue, operands |-> <<>>,
                imm_int |-> 0, imm_float |-> NoFloat, callee |-> "",
                target_block |-> 0, else_block |-> 0]

Terminators == {"ret", "br", "cond_br"}

\* std::vector growth on push_back at size = capacity.  "double" is the
\* libstdc++ / libc++ policy, "half" the MSVC one (capacity + capacity/2,
\* at least size + 1).
Grow(policy, cap) ==
    IF cap = 0 THEN 1
    ELSE IF policy = "double" THEN 2 * cap
    ELSE IF cap + (cap \div 2) > cap THEN cap + (cap \div 2) ELSE cap + 1

\* Module::add_function: a Function with no blocks and fresh counters.
add_function(name, params, ret) ==
    [name |-> name, param_types |-> params, return_type |-> ret,
     blocks |-> <<>>, cap |-> 0, gen |-> 0,
     next_value_id |-> 1, next_block_id |-> 0]

\* A lowering context: the Function under construction, the builder's
\* insertion point, the Lowering symbol table and the build parameters.
\* A block reference records the storage generation it was taken in.
Live(cx, ref) == ref.gen = cx.fn.gen

\* Function::new_value with the counter left where it was (next_value_id
\* read, not post-incremented).
new_value_reuse(cx, type) ==
    [cx |-> cx, v |-> [id |-> cx.fn.next_value_id, type |-> type]]

\* Function::new_value
new_value(cx, type) ==
    [cx |-> [cx EXCEPT !.fn.next_value_id = @ + 1],
     v  |-> [id |-> cx.fn.next_value_id, type |-> type]]

\* Function::new_block (reached through IRBuilder::create_block)
new_block(cx, label) ==
    LET f    == cx.fn
        bb   == [id |-> f.next_block_id,
                 label |-> IF label = "" THEN "bb" ELSE label,
                 instrs |-> <<>>]
        full == Len(f.blocks) = f.cap
        f2   == [f EXCEPT !.next_block_id = @ + 1,
                          !.blocks = Append(@, bb),
                          !.cap = IF full THEN Grow(cx.build.growth, f.cap) ELSE @,
                          !.gen = IF full THEN @ + 1 ELSE @]
    IN [cx  |-> [cx EXCEPT !.fn = f2],
        ref |-> [idx |-> Len(f2.blocks), gen |-> f2.gen, id |-> bb.id]]

create_block(cx, label) == new_block(cx, label)

\* The BasicBlock::id read through a reference.
ref_id(cx, ref) ==
    IF Live(cx, ref) THEN cx.fn.blocks[ref.idx].id
    ELSE IF cx.build.keep THEN ref.id
    ELSE cx.build.junk

set_insert_point(cx, ref) == [cx EXCEPT !.current_block_ = ref]

\* IRBuilder::emit -> BasicBlock::add through current_block_
emit(cx, instr) ==
    IF Live(cx, cx.current_block_)
    THEN [cx EXCEPT !.fn.blocks[cx.current_block_.idx].instrs = Append(@, instr)]
    ELSE cx

const_int(cx, value) ==
    LET r == new_value(cx, "int")
    IN [cx |-> emit(r.cx, [Instruction EXCEPT !.op = "const_int", !.result = r.v,
                                              !.imm_int = value]),
        v  |-> r.v]

const_float(cx, value) ==
    LET r == new_value(cx, "float")
    IN [cx |-> emit(r.cx, [Instruction EXCEPT !.op = "const_float", !.result = r.v,
                                              !.imm_float = value]),
        v  |-> r.v]

binary_op(cx, op, lhs, rhs) ==
    LET r == new_value(cx, binary_result_type(lhs.type, rhs.type))
    IN [cx |-> emit(r.cx, [Instruction EXCEPT !.op = op, !.result = r.v,
                                              !.operands = <<lhs, rhs>>]),
        v  |-> r.v]

cmp(cx, op, lhs, rhs) ==
    LET r == new_value(cx, "int")
    IN [cx |-> emit(r.cx, [Instruction EXCEPT !.op = op, !.result = r.v,
                                              !.operands = <<lhs, rhs>>]),
        v  |-> r.v]

neg(cx, operand) ==
    LET r == new_value(cx, operand.type)
    IN [cx |-> emit(r.cx, [Instruction EXCEPT !.op = "neg", !.result = r.v,
                                              !.operands = <<operand>>]),
        v  |-> r.v]

ret(cx) == emit(cx, [Instruction EXCEPT !.op = "ret"])

ret_value(cx, value) ==
    emit(cx, [Instruction EXCEPT !.op = "ret", !.operands = <<value>>])

br(cx, target) ==
    emit(cx, [Instruction EXCEPT !.op = "br", !.target_block = ref_id(cx, target)])

cond_br(cx, cond, then_bb, else_bb) ==
    emit(cx, [Instruction EXCEPT !.op = "cond_br", !.operands = <<cond>>,
                                 !.target_block = ref_id(cx, then_bb),
                                 !.else_block = ref_id(cx, else_bb)])

call(cx, callee, args, ret_type) ==
    LET r == IF ret_type # "void" THEN new_value(cx, ret_type)
             ELSE [cx |-> cx, v |-> InvalidValue]
    IN [cx |-> emit(r.cx, [Instruction EXCEPT !.op = "call", !.callee = callee,
                                              !.operands = args, !.result = r.v]),
        v  |-> r.v]

\* ------------------------------------------------------------------------
\* Lowering (lowering.cpp)
\* ------------------------------------------------------------------------
BinOpCode(op) ==
    CASE op = "ADD" -> "add" [] op = "SUB" -> "sub" [] op = "MUL" -> "mul"
      [] op = "DIV" -> "div" [] op = "EQ" -> "cmp_eq" [] op = "NE" -> "cmp_ne"
      [] op = "LT" -> "cmp_lt" [] op = "LE" -> "cmp_le" [] op = "GT" -> "cmp_gt"
      [] op = "GE" -> "cmp_ge"

\* C++ evaluates one statement after the other: `v` is computed in full,
\* then `F` goes on from its value.
Then(v, F(_)) == CHOOSE r \in { F(x) : x \in {v} } : TRUE

RECURSIVE lower_expr(_, _)
RECURSIVE lower_args(_, _, _)
RECURSIVE lower_stmt(_, _)
RECURSIVE lower_stmts(_, _)

\* The argument loop of the CallExpr case: left to right, collecting values.
lower_args(cx, args, acc) ==
    IF args = <<>> THEN [cx |-> cx, vs |-> acc]
    ELSE Then(lower_expr(cx, Head(args)),
              LAMBDA r : lower_args(r.cx, Tail(args), Append(acc, r.v)))

lower_expr(cx, e) ==
    CASE e.k = "id" ->
           IF e.name \in DOMAIN cx.symbols_
           THEN [cx |-> cx, v |-> cx.symbols_[e.name]]
           ELSE [cx |-> cx, v |-> InvalidValue]
      [] e.k = "int" -> const_int(cx, e.value)
      [] e.k = "float" -> const_float(cx, [num |-> e.num, den |-> e.den])
      [] e.k = "bin" ->
           Then(IF e.left.k # "null" THEN lower_expr(cx, e.left)
                ELSE [cx |-> cx, v |-> InvalidValue],
                LAMBDA l :
           Then(IF e.right.k # "null" THEN lower_expr(l.cx, e.right)
                ELSE [cx |-> l.cx, v |-> InvalidValue],
                LAMBDA r :
           IF e.op \in {"ADD", "SUB", "MUL", "DIV"}
           THEN binary_op(r.cx, BinOpCode(e.op), l.v, r.v)
           ELSE cmp(r.cx, BinOpCode(e.op), l.v, r.v)))
      [] e.k = "un" ->
           Then(IF e.operand.k # "null" THEN lower_expr(cx, e.operand)
                ELSE [cx |-> cx, v |-> InvalidValue],
                LAMBDA o : IF e.op = "NEG" THEN neg(o.cx, o.v) ELSE o)
      [] e.k = "call" ->
           Then(lower_args(cx, e.args, <<>>),
                LAMBDA a : call(a.cx, e.callee, a.vs, "void"))
      [] e.k = "group" ->
           IF e.inner.k # "null" THEN lower_expr(cx, e.inner)
           ELSE [cx |-> cx, v |-> InvalidValue]
      [] OTHER -> [cx |-> cx, v |-> InvalidValue]

lower_if(cx, s) ==
    Then(IF s.condition.k # "null" THEN lower_expr(cx, s.condition)
         ELSE [cx |-> cx, v |-> InvalidValue],    LAMBDA c :
    Then(create_block(c.cx, "if.then"),           LAMBDA t :
    Then(create_block(t.cx, "if.end"),            LAMBDA m :
    IF s.else_branch = <<>>
    THEN Then(cond_br(m.cx, c.v, t.ref, m.ref),                       LAMBDA c1 :
         Then(lower_stmts(set_insert_point(c1, t.ref), s.then_branch), LAMBDA c2 :
         Then(br(c2, m.ref),                                          LAMBDA c3 :
         set_insert_point(c3, m.ref))))
    ELSE Then(create_block(m.cx, "if.else"),                          LAMBDA el :
         Then(cond_br(el.cx, c.v, t.ref, el.ref),                     LAMBDA c1 :
         Then(lower_stmts(set_insert_point(c1, el.ref), s.else_branch), LAMBDA c2 :
         Then(br(c2, m.ref),                                          LAMBDA c3 :
         Then(lower_stmts(set_insert_point(c3, t.ref), s.then_branch), LAMBDA c4 :
         Then(br(c4, m.ref),                                          LAMBDA c5 :
         set_insert_point(c5, m.ref)))))))))) 

lower_while(cx, s) ==
    Then(create_block(cx, "while.cond"),          LAMBDA cb :
    Then(create_block(cb.cx, "while.body"),       LAMBDA bb :
    Then(create_block(bb.cx, "while.end"),        LAMBDA eb :
    Then(br(eb.cx, cb.ref),                       LAMBDA c0 :
    Then(IF s.condition.k # "null"
         THEN lower_expr(set_insert_point(c0, cb.ref), s.condition)
         ELSE [cx |-> set_insert_point(c0, cb.ref), v |-> InvalidValue],
                                                  LAMBDA c :
    Then(cond_br(c.cx, c.v, bb.ref, eb.ref),      LAMBDA c2 :
    Then(lower_stmts(set_insert_point(c2, bb.ref), s.body), LAMBDA c3 :
    Then(br(c3, cb.ref),                          LAMBDA c4 :
    set_insert_point(c4, eb.ref)))))))))

lower_stmt(cx, s) ==
    CASE s.k = "let" ->
           IF s.init.k # "null"
           THEN Then(lower_expr(cx, s.init), LAMBDA r :
                     [r.cx EXCEPT !.symbols_ =
                         [n \in DOMAIN @ \cup {s.name} |->
                             IF n = s.name THEN r.v ELSE @[n]]])
           ELSE cx
      [] s.k = "return" ->
           IF s.value.k # "null"
           THEN Then(lower_expr(cx, s.value), LAMBDA r : ret_value(r.cx, r.v))
           ELSE ret(cx)
      [] s.k = "expr" ->
           IF s.expr.k # "null" THEN lower_expr(cx, s.expr).cx ELSE cx
      [] s.k = "if" -> lower_if(cx, s)
      [] s.k = "while" -> lower_while(cx, s)
      [] s.k = "block" -> lower_stmts(cx, s.stmts)

\* The statement loops: each statement is lowered from the builder state
\* its predecessor left.
lower_stmts(cx, ss) ==
    IF ss = <<>> THEN cx
    ELSE Then(lower_stmt(cx, Head(ss)), LAMBDA done : lower_stmts(done, Tail(ss)))

RECURSIVE bind_params(_, _, _)
\* The parameter loop of lower_function: one fresh value per parameter.
bind_params(cx, params, i) ==
    IF i > Len(params) THEN cx
    ELSE Then(new_value(cx, ast_to_type(params[i].type)), LAMBDA r :
              bind_params([r.cx EXCEPT !.symbols_ =
                              [n \in DOMAIN @ \cup {params[i].name} |->
                                  IF n = params[i].name THEN r.v ELSE @[n]]],
                          params, i + 1))

lower_function(fn_ast, build) ==
    LET param_types == [i \in 1..Len(fn_ast.params) |-> ast_to_type(fn_ast.params[i].type)]
        ret_type == IF fn_ast.return_type # "none" THEN ast_to_type(fn_ast.return_type)
                    ELSE "void"
        cx0 == [fn |-> add_function(fn_ast.name, param_types, ret_type),
                current_block_ |-> [idx |-> 0, gen |-> 0, id |-> 0],
                symbols_ |-> <<>>, build |-> build]
    IN \* IRBuilder(fn): current_block_(&fn.entry())
       Then(new_block(cx0, "entry"),                                  LAMBDA en :
       Then(bind_params(set_insert_point(en.cx, en.ref), fn_ast.params, 1), LAMBDA cx2 :
       Then(lower_stmts(cx2, fn_ast.body),                            LAMBDA cx3 :
       Then(cx3.fn.blocks,                                            LAMBDA bs :
       IF bs = <<>> \/ bs[Len(bs)].instrs = <<>>
          \/ bs[Len(bs)].instrs[Len(bs[Len(bs)].instrs)].op # "ret"
       THEN ret(cx3).fn ELSE cx3.fn))))

lower(prog, build) == [i \in 1..Len(prog) |-> lower_function(prog[i], build)]

\* ------------------------------------------------------------------------
\* Semantic analysis (sema.cpp).  An analyzer state is the record of the
\* Sema members; an error is recorded by kind and offending name.
\* ------------------------------------------------------------------------
Put(m, n, v) == [x \in DOMAIN m \cup {n} |-> IF x = n THEN v ELSE m[x]]

EmptyMap == [x \in {} |-> 0]

error(sx, kind, what) ==
    [sx EXCEPT !.errors_ = Append(@, [kind |-> kind, what |-> what])]

push_scope(sx) == [sx EXCEPT !.scopes_ = Append(@, EmptyMap)]

pop_scope(sx) ==
    IF sx.scopes_ # <<>> THEN [sx EXCEPT !.scopes_ = SubSeq(@, 1, Len(@) - 1)]
    ELSE sx

\* A declare that reports the duplicate and rebinds the name all the same.
declare_rebind(sx, name, type) ==
    LET s1  == IF sx.scopes_ = <<>> THEN push_scope(sx) ELSE sx
        top == Len(s1.scopes_)
    IN IF name \in DOMAIN s1.scopes_[top]
       THEN error([s1 EXCEPT !.scopes_[top] = Put(@, name, type)],
                  "DUPLICATE_DEFINITION", name)
       ELSE [s1 EXCEPT !.scopes_[top] = Put(@, name, type)]

declare(sx, name, type) ==
    LET s1  == IF sx.scopes_ = <<>> THEN push_scope(sx) ELSE sx
        top == Len(s1.scopes_)
    IN IF name \in DOMAIN s1.scopes_[top]
       THEN error(s1, "DUPLICATE_DEFINITION", name)
       ELSE [s1 EXCEPT !.scopes_[top] = Put(@, name, type)]

RECURSIVE lookup_from(_, _, _)
\* The reverse iteration of Sema::lookup, from scope i outwards.
lookup_from(sx, name, i) ==
    IF i = 0 THEN [found |-> FALSE, type |-> "unknown"]
    ELSE IF name \in DOMAIN sx.scopes_[i]
         THEN [found |-> TRUE, type |-> sx.scopes_[i][name]]
         ELSE lookup_from(sx, name, i - 1)

lookup(sx, name) == lookup_from(sx, name, Len(sx.scopes_))

RECURSIVE collect_functions(_, _, _)
collect_functions(sx, prog, i) ==
    IF i > Len(prog) THEN sx
    ELSE LET fn  == prog[i]
             sig == [name |-> fn.name,
                     param_types |-> [j \in 1..Len(fn.params) |->
                                         ast_to_type(fn.params[j].type)],
                     return_type |-> IF fn.return_type # "none"
                                     THEN ast_to_type(fn.return_type) ELSE "void"]
         IN collect_functions(
               IF fn.name \in DOMAIN sx.functions_
               THEN error(sx, "DUPLICATE_DEFINITION", fn.name)
               ELSE [sx EXCEPT !.functions_ = Put(@, fn.name, sig)],
               prog, i + 1)

RECURSIVE check_expr(_, _)
RECURSIVE check_args(_, _, _, _)
RECURSIVE check_stmt(_, _)
RECURSIVE check_stmts(_, _)

\* The argument-type loop of the CallExpr case.
check_args(sx, e, sig, i) ==
    IF ~(i <= Len(e.args) /\ i <= Len(sig.param_types)) THEN sx
    ELSE Then(check_expr(sx, e.args[i]), LAMBDA a :
              check_args(IF ~types_compatible(sig.param_types[i], a.t)
                         THEN error(a.sx, "TYPE_MISMATCH", e.callee) ELSE a.sx,
                         e, sig, i + 1))

check_expr(sx, e) ==
    CASE e.k = "id" ->
           LET r == lookup(sx, e.name)
           IN IF ~r.found
              THEN [sx |-> error(sx, "UNDEFINED_VARIABLE", e.name), t |-> "unknown"]
              ELSE [sx |-> sx, t |-> r.type]
      [] e.k = "int" -> [sx |-> sx, t |-> "int"]
      [] e.k = "float" -> [sx |-> sx, t |-> "float"]
      [] e.k = "bin" ->
           Then(IF e.left.k # "null" THEN check_expr(sx, e.left)
                ELSE [sx |-> sx, t |-> "unknown"],                  LAMBDA l :
           Then(IF e.right.k # "null" THEN check_expr(l.sx, e.right)
                ELSE [sx |-> l.sx, t |-> "unknown"],                LAMBDA r :
                [sx |-> r.sx, t |-> binary_result_type(l.t, r.t)]))
      [] e.k = "un" ->
           IF e.operand.k # "null" THEN check_expr(sx, e.operand)
           ELSE [sx |-> sx, t |-> "unknown"]
      [] e.k = "call" ->
           IF e.callee \notin DOMAIN sx.functions_
           THEN [sx |-> error(sx, "UNDEFINED_FUNCTION", e.callee), t |-> "unknown"]
           ELSE LET sig == sx.functions_[e.callee]
                    s1  == IF Len(e.args) # Len(sig.param_types)
                           THEN error(sx, "WRONG_ARG_COUNT", e.callee) ELSE sx
                IN [sx |-> check_args(s1, e, sig, 1), t |-> sig.return_type]
      [] e.k = "group" ->
           IF e.inner.k # "null" THEN check_expr(sx, e.inner)
           ELSE [sx |-> sx, t |-> "unknown"]
      [] OTHER -> [sx |-> sx, t |-> "unknown"]

check_stmt(sx, s) ==
    CASE s.k = "let" ->
           Then(IF s.init.k # "null" THEN check_expr(sx, s.init)
                ELSE [sx |-> sx, t |-> "unknown"], LAMBDA i :
                LET vt == IF s.type_annot # "none" THEN ast_to_type(s.type_annot)
                          ELSE i.t
                    s1 == IF s.type_annot # "none" /\ i.t # "unknown"
                             /\ ~types_compatible(vt, i.t)
                          THEN error(i.sx, "TYPE_MISMATCH", s.name) ELSE i.sx
                IN declare(s1, s.name, vt))
      [] s.k = "return" ->
           LET r == IF s.value.k # "null" THEN check_expr(sx, s.value)
                    ELSE [sx |-> sx, t |-> "void"]
           IN IF ~types_compatible(sx.current_return_type_, r.t)
              THEN error(r.sx, "RETURN_TYPE_MISMATCH", "return") ELSE r.sx
      [] s.k = "expr" ->
           IF s.expr.k # "null" THEN check_expr(sx, s.expr).sx ELSE sx
      [] s.k = "if" ->
           Then(IF s.condition.k # "null" THEN check_expr(sx, s.condition).sx
                ELSE sx,                                            LAMBDA c :
           Then(pop_scope(check_stmts(push_scope(c), s.then_branch)), LAMBDA t :
                IF s.else_branch # <<>>
                THEN pop_scope(check_stmts(push_scope(t), s.else_branch))
                ELSE t))
      [] s.k = "while" ->
           LET c == IF s.condition.k # "null" THEN check_expr(sx, s.condition).sx
                    ELSE sx
           IN pop_scope(check_stmts(push_scope(c), s.body))
      [] s.k = "block" -> pop_scope(check_stmts(push_scope(sx), s.stmts))

check_stmts(sx, ss) ==
    IF ss = <<>> THEN sx
    ELSE Then(check_stmt(sx, Head(ss)), LAMBDA s1 : check_stmts(s1, Tail(ss)))

RECURSIVE declare_params(_, _, _)
declare_params(sx, params, i) ==
    IF i > Len(params) THEN sx
    ELSE declare_params(declare(sx, params[i].name, ast_to_type(params[i].type)),
                        params, i + 1)

check_fn(sx, fn) ==
    LET s1 == [push_scope(sx) EXCEPT !.current_return_type_ =
                  IF fn.return_type # "none" THEN ast_to_type(fn.return_type)
                  ELSE "unknown"]
    IN Then(declare_params(s1, fn.params, 1),
            LAMBDA s2 : pop_scope(check_stmts(s2, fn.body)))

RECURSIVE check_fns(_, _, _)
check_fns(sx, prog, i) ==
    IF i > Len(prog) THEN sx
    ELSE Then(check_fn(sx, prog[i]), LAMBDA s1 : check_fns(s1, prog, i + 1))

\* Sema::analyze on a freshly constructed Sema; the result is errors().
analyze(prog) ==
    LET sx0 == [scopes_ |-> <<>>, functions_ |-> EmptyMap, errors_ |-> <<>>,
                current_return_type_ |-> "unknown"]
    IN check_fns(collect_functions(sx0, prog, 1), prog, 1).errors_

\* ------------------------------------------------------------------------
\* Runtime values (interpreter.hpp, RuntimeValue).  A value is a tag with
\* a payload num/den: int n is n/1, a float is a reduced fraction (den = 0
\* stands for the IEEE infinities and NaN), unit carries 0/1.  All ints of
\* the model stay far inside the 32-bit range, so int64 arithmetic never
\* wraps and static_cast<int> keeps the value.
\* ------------------------------------------------------------------------
Unit == [t |-> "unit", num |-> 0, den |-> 1]
IntV(n) == [t |-> "int", num |-> n, den |-> 1]

Abs(n) == IF n < 0 THEN -n ELSE n

RECURSIVE Gcd(_, _)
Gcd(a, b) == IF b = 0 THEN a ELSE Gcd(b, a % b)

FloatV(n, d) ==
    IF d = 0 THEN [t |-> "float", num |-> (IF n > 0 THEN 1 ELSE IF n < 0 THEN -1 ELSE 0),
                   den |-> 0]
    ELSE LET sn == IF d < 0 THEN -n ELSE n
             sd == Abs(d)
             g  == Gcd(Abs(sn), sd)
         IN [t |-> "float", num |-> sn \div g, den |-> sd \div g]

\* C++ integer division truncates toward zero.
\* int64_t, at the width the model gives it: IntBits bits, two's complement.
IntBits == 16

IntMin == -(2 ^ (IntBits - 1))

IntMax == 2 ^ (IntBits - 1) - 1

TruncDiv(a, b) ==
    IF (a < 0) = (b < 0) THEN Abs(a) \div Abs(b) ELSE -(Abs(a) \div Abs(b))

is_int(rv) == rv.t = "int"
is_float(rv) == rv.t = "float"

\* RuntimeValue::to_int; the conversion of a non-finite double is undefined
\* and yields the build's arbitrary word.
to_int(rv, junk) ==
    IF is_int(rv) THEN rv.num
    ELSE IF is_float(rv) THEN (IF rv.den = 0 THEN junk ELSE TruncDiv(rv.num, rv.den))
    ELSE 0

to_float(rv) ==
    IF is_float(rv) THEN rv
    ELSE IF is_int(rv) THEN FloatV(rv.num, 1)
    ELSE FloatV(0, 1)

FAdd(a, b) == FloatV(a.num * b.den + b.num * a.den, a.den * b.den)
FSub(a, b) == FloatV(a.num * b.den - b.num * a.den, a.den * b.den)
FMul(a, b) == FloatV(a.num * b.num, a.den * b.den)
FDiv(a, b) == FloatV(a.num * b.den, a.den * b.num)

BoolInt(b) == IF b THEN 1 ELSE 0

\* Interpreter::get_value over a value table
get_value(values, v) == IF v.id \in DOMAIN values THEN values[v.id] ELSE Unit

\* Interpreter::set_value
set_value(values, v, rv) == Put(values, v.id, rv)

\* exec_instruction for every opcode but CALL: the value `result` holds at
\* the end of the switch.
exec_result(instr, values, junk) ==
    LET a == get_value(values, instr.operands[1])
        b == get_value(values, instr.operands[2])
        fl == is_float(a) \/ is_float(b)
        ia == to_int(a, junk)
        ib == to_int(b, junk)
    IN CASE instr.op = "const_int" -> IntV(instr.imm_int)
         [] instr.op = "const_float" -> FloatV(instr.imm_float.num, instr.imm_float.den)
         [] instr.op = "add" -> IF fl THEN FAdd(to_float(a), to_float(b)) ELSE IntV(ia + ib)
         [] instr.op = "sub" -> IF fl THEN FSub(to_float(a), to_float(b)) ELSE IntV(ia - ib)
         [] instr.op = "mul" -> IF fl THEN FMul(to_float(a), to_float(b)) ELSE IntV(ia * ib)
         [] instr.op = "div" -> IF fl THEN FDiv(to_float(a), to_float(b))
                                ELSE IntV(IF ib # 0 THEN TruncDiv(ia, ib) ELSE 0)
         [] instr.op = "neg" -> IF is_float(a) THEN FloatV(-a.num, a.den) ELSE IntV(-ia)
         [] instr.op = "cmp_eq" -> IntV(BoolInt(ia = ib))
         [] instr.op = "cmp_ne" -> IntV(BoolInt(ia # ib))
         [] instr.op = "cmp_lt" -> IntV(BoolInt(ia < ib))
         [] instr.op = "cmp_le" -> IntV(BoolInt(ia <= ib))
         [] instr.op = "cmp_gt" -> IntV(BoolInt(ia > ib))
         [] instr.op = "cmp_ge" -> IntV(BoolInt(ia >= ib))
         [] OTHER -> Unit

\* The int case of DIV with the one pair of operands whose quotient is no
\* int64_t: the most negative int divided by -1.
div_overflows(instr, values, junk) ==
    /\ instr.op = "div"
    /\ ~is_float(get_value(values, instr.operands[1]))
    /\ ~is_float(get_value(values, instr.operands[2]))
    /\ to_int(get_value(values, instr.operands[1]), junk) = IntMin
    /\ to_int(get_value(values, instr.operands[2]), junk) = -1

\* Module::get_function: index of the first function of that name, 0 if none.
get_function(m, name) ==
    IF \E i \in 1..Len(m) : m[i].name = name
    THEN CHOOSE i \in 1..Len(m) : m[i].name = name /\ \A j \in 1..(i - 1) : m[j].name # name
    ELSE 0

\* The registered externals, by name: the test's external_fn returns 99,
\* the driver's print returns unit.
ExternalFn(name, args) == IF name = "print" THEN Unit ELSE IntV(99)

\* ------------------------------------------------------------------------
\* The programs of the model: an optional helper f(a, b) followed by main,
\* whose body is an optional leading let, a middle part drawn from a pool
\* covering every statement and expression kind (the last entry is a run of
\* three ifs, long enough for a cond_br to be emitted while its block and
\* its targets are all live), and a closing statement.
\* ------------------------------------------------------------------------
X == Identifier("x")
I(n) == IntLiteral(n)
CallF == CallExpr("f", <<I(3), I(4)>>)

Helpers ==
    { <<>>,
      <<FnDecl("f", <<Param("a", "int"), Param("b", "int")>>, "int",
               <<ReturnStmt(Identifier("b"))>>)>>,
      <<FnDecl("f", <<Param("a", "int"), Param("b", "int")>>, "none",
               <<LetStmt("t", BinaryExpr("ADD", Identifier("a"), Identifier("b")))>>)>> }

Pre == { <<>>, <<LetStmt("x", I(1))>> }

Mid ==
    { <<>>,
      <<IfStmt(I(0), <<LetStmt("x", I(2))>>, <<>>)>>,
      <<IfStmt(I(1), <<LetStmt("x", I(2))>>, <<>>)>>,
      <<IfStmt(I(0), <<ReturnStmt(I(1))>>, <<ReturnStmt(I(2))>>)>>,
      <<IfStmt(I(1), <<ReturnStmt(I(1))>>, <<ReturnStmt(I(2))>>)>>,
      <<IfStmt(X, <<IfStmt(X, <<ReturnStmt(I(1))>>, <<>>)>>, <<LetStmt("y", I(3))>>)>>,
      <<WhileStmt(I(0), <<LetStmt("x", I(2))>>)>>,
      <<WhileStmt(BinaryExpr("LT", X, I(2)),
                  <<IfStmt(X, <<>>, <<>>), ReturnStmt(I(5))>>)>>,
      <<Block(<<LetStmt("x", I(3))>>)>>,
      <<ExprStmt(CallF)>>,
      <<ExprStmt(CallExpr("ext", <<>>))>>,
      <<LetStmt("x", UnaryExpr("NEG", GroupExpr(BinaryExpr("MUL", X, I(3)))))>>,
      <<LetStmt("x", UnaryExpr("NOT", X))>>,
      <<LetStmt("x", BinaryExpr("DIV", FloatLiteral(5, 2), X))>>,
      <<LetStmt("y", CallF), ExprStmt(BinaryExpr("SUB", X, Identifier("y")))>>,
      <<IfStmt(I(0), <<>>, <<>>), IfStmt(I(0), <<>>, <<>>),
        IfStmt(X, <<ReturnStmt(I(7))>>, <<LetStmt("y", I(8))>>)>>,
      <<LetStmt("x", BinaryExpr("DIV",
            BinaryExpr("SUB", BinaryExpr("SUB", I(0), I(IntMax)), I(1)),
            BinaryExpr("SUB", I(0), I(1))))>> }

Post ==
    { <<>>,
      <<ReturnStmt(Null)>>,
      <<ReturnStmt(X)>>,
      <<ReturnStmt(CallF)>> }

Programs ==
    { h \o <<FnDecl("main", <<>>, "none", a \o b \o c)>> :
        h \in Helpers, a \in Pre, b \in Mid, c \in Post }

\* Builds: the vector growth policy and what a read through a reference
\* into released storage yields (the old contents, or an arbitrary word).
Builds ==
    { [growth |-> g, keep |-> TRUE, junk |-> 0] : g \in {"double", "half"} }
    \cup { [growth |-> g, keep |-> FALSE, junk |-> j] :
             g \in {"double", "half"}, j \in {0, 1000000} }

ExternNames == {"ext", "f"}
EntryNames == {"main", "f", "nope"}

\* Executions per behaviour.
MaxRuns == 2

\* ------------------------------------------------------------------------
\* State
\* ------------------------------------------------------------------------
VARIABLES
    sm,           \* the SourceManager: files_, and the record of the loads made
    lexer,        \* the Lexer: source_, start_, current_, has_peeked_, peeked_
    parser,       \* the Parser: its tokens and position, errors_, had_error_,
                  \* panic_mode_
    typing,       \* the operand types of a chain of binary operators and the
                  \* result types computed for it so far
    prog,         \* the parsed program
    build,        \* the build parameters
    phase,        \* "parsed", "analysed", "idle" (module lowered), "running",
                  \* "faulted" (the process was ended by a trap)
    errors_,      \* Sema::errors() once analysed
    mod,          \* the lowered ir::Module
    externals_,   \* Interpreter::externals_ (the registered names)
    values_,      \* Interpreter::values_
    call_stack_,  \* Interpreter::call_stack_ with its capacity
    exit_code_,   \* Interpreter::exit_code_
    acts,         \* the active invocations of call_function, innermost last
    entry,        \* the entry name of the execute in progress
    runs          \* the completed executes, oldest first

vars == <<sm, lexer, parser, typing, prog, build, phase, errors_, mod, externals_, values_, call_stack_,
          exit_code_, acts, entry, runs>>

\* No SourceManager and no Lexer take part in the run.
NoSources == [files_ |-> <<>>, loads |-> <<>>, asked |-> <<>>]

NoLexer == [source_ |-> [k |-> "null"], start_ |-> 0, current_ |-> 0,
            has_peeked_ |-> FALSE, peeked_ |-> [type |-> "EOF_TOKEN"],
            calls |-> <<>>]

\* No source text: the program is handed over as a tree.
NoParser == [tokens |-> <<>>, at |-> 0, previous_ |-> [type |-> "EOF_TOKEN"],
             errors_ |-> <<>>, had_error_ |-> FALSE, panic_mode_ |-> FALSE,
             null_deref |-> FALSE, hung |-> FALSE]

NoTyping == [operand_types |-> <<>>, result_types |-> <<>>]

Init ==
    /\ sm = NoSources
    /\ lexer = NoLexer
    /\ parser = NoParser
    /\ typing = NoTyping
    /\ prog \in Programs
    /\ build \in Builds
    /\ phase = "parsed"
    /\ errors_ = <<>>
    /\ mod = <<>>
    /\ externals_ = {}
    /\ values_ = EmptyMap
    /\ call_stack_ = [frames |-> <<>>, cap |-> 0]
    /\ exit_code_ = 0
    /\ acts = <<>>
    /\ entry = ""
    /\ runs = <<>>

\* sema.analyze(prog) in the driver
Analyze ==
    /\ phase = "parsed"
    /\ errors_' = analyze(prog)
    /\ phase' = "analysed"
    /\ UNCHANGED <<sm, lexer, parser, typing, prog, build, mod, externals_, values_, call_stack_, exit_code_,
                   acts, entry, runs>>

\* lowering.lower(prog)
Lower ==
    /\ phase = "analysed"
    /\ mod' = lower(prog, build)
    /\ phase' = "idle"
    /\ UNCHANGED <<sm, lexer, parser, typing, prog, build, errors_, externals_, values_, call_stack_, exit_code_,
                   acts, entry, runs>>

\* Interpreter::register_external, before the first execute
register_external(name) ==
    /\ phase = "idle"
    /\ runs = <<>>
    /\ name \notin externals_
    /\ externals_' = externals_ \cup {name}
    /\ UNCHANGED <<sm, lexer, parser, typing, prog, build, phase, errors_, mod, values_, call_stack_, exit_code_,
                   acts, entry, runs>>

\* ------------------------------------------------------------------------
\* Interpreter (interpreter.cpp).  An invocation of call_function is a
\* record: its function (index in the module), its local `result`, where
\* it stands (pc), the block `bb` of the running inner loop, the call
\* instruction it waits on (at) and its CallFrame& `current`: a reference
\* into call_stack_ that is live until a push_back moves the frames, and
\* from then on addresses the released copy (block_idx, instr_idx).
\* ------------------------------------------------------------------------
Top == acts[Len(acts)]

Unbound == [idx |-> 0, live |-> FALSE, block_idx |-> 0, instr_idx |-> 0]

cur_block_idx(a) ==
    IF a.cur.live THEN call_stack_.frames[a.cur.idx].block_idx
    ELSE IF build.keep THEN a.cur.block_idx ELSE build.junk

cur_instr_idx(a) ==
    IF a.cur.live THEN call_stack_.frames[a.cur.idx].instr_idx
    ELSE IF build.keep THEN a.cur.instr_idx ELSE build.junk

\* Assignment of both fields through `current`: the frames after it ...
write_frames(a, blk, ins) ==
    IF a.cur.live
    THEN [call_stack_ EXCEPT !.frames[a.cur.idx] =
             [@ EXCEPT !.block_idx = blk, !.instr_idx = ins]]
    ELSE call_stack_

\* ... and the reference after it.
write_cur(a, blk, ins) ==
    IF a.cur.live THEN a.cur
    ELSE [a.cur EXCEPT !.block_idx = blk, !.instr_idx = ins]

\* call_stack_.push_back(frame) for function f
push_frame(f) ==
    [frames |-> Append(call_stack_.frames, [fn |-> f, block_idx |-> 0, instr_idx |-> 0]),
     cap |-> IF Len(call_stack_.frames) = call_stack_.cap
             THEN Grow(build.growth, call_stack_.cap) ELSE call_stack_.cap]

\* The invocations after that push_back: when the frames moved, every live
\* `current` keeps addressing the old storage.
after_push(as) ==
    IF Len(call_stack_.frames) = call_stack_.cap
    THEN [i \in DOMAIN as |->
            IF as[i].cur.live
            THEN [as[i] EXCEPT !.cur = [idx |-> @.idx, live |-> FALSE,
                        block_idx |-> call_stack_.frames[@.idx].block_idx,
                        instr_idx |-> call_stack_.frames[@.idx].instr_idx]]
            ELSE as[i]]
    ELSE as

pop_back(cs) == [cs EXCEPT !.frames = SubSeq(@, 1, Len(@) - 1)]

NewAct(f) == [fn |-> f, result |-> Unit, pc |-> "outer", bb |-> 0, at |-> 0,
              cur |-> Unbound]

CurInstr(a) == mod[a.fn].blocks[a.bb].instrs[cur_instr_idx(a) + 1]

AtInstr(a, op) ==
    /\ phase = "running"
    /\ Top.pc = "inner"
    /\ a = Top
    /\ cur_instr_idx(a) < Len(mod[a.fn].blocks[a.bb].instrs)
    /\ CurInstr(a).op \in op

\* The tail of execute once call_function has returned rv.
finish_execute(e, rv) ==
    /\ exit_code_' = IF is_int(rv) THEN rv.num ELSE exit_code_
    /\ runs' = Append(runs, [entry |-> e, thrown |-> FALSE, result |-> rv,
                             exit_code |-> exit_code_'])
    /\ phase' = "idle"
    /\ acts' = <<>>

\* call_function returns rv to its caller: execute, or the CALL case of
\* exec_instruction in the invocation below, which stores the result and
\* steps `current` past the call.
return_to_caller(rv, cs) ==
    IF Len(acts) = 1
    THEN /\ finish_execute(entry, rv)
         /\ call_stack_' = cs
         /\ UNCHANGED <<values_, entry>>
    ELSE LET c  == acts[Len(acts) - 1]
             in == mod[c.fn].blocks[c.bb].instrs[c.at]
             i  == IF c.cur.live THEN cs.frames[c.cur.idx].instr_idx
                   ELSE IF build.keep THEN c.cur.instr_idx ELSE build.junk
             c2 == [c EXCEPT !.result = rv, !.pc = "inner",
                             !.cur = IF c.cur.live THEN @
                                     ELSE [@ EXCEPT !.instr_idx = i + 1]]
         IN /\ values_' = IF valid(in.result) THEN set_value(values_, in.result, rv)
                          ELSE values_
            /\ call_stack_' = IF c.cur.live
                              THEN [cs EXCEPT !.frames[c.cur.idx].instr_idx = i + 1]
                              ELSE cs
            /\ acts' = Append(SubSeq(acts, 1, Len(acts) - 2), c2)
            /\ UNCHANGED <<phase, exit_code_, runs, entry>>

\* Interpreter::execute with a missing entry function answered by unit
\* instead of the runtime_error.
execute_missing_is_unit(e) ==
    /\ phase = "idle"
    /\ Len(runs) < MaxRuns
    /\ values_' = EmptyMap
    /\ entry' = e
    /\ LET fi == get_function(mod, e)
       IN IF fi = 0
          THEN /\ finish_execute(e, Unit)
               /\ call_stack_' = [call_stack_ EXCEPT !.frames = <<>>]
          ELSE IF mod[fi].name \in externals_
          THEN /\ finish_execute(e, ExternalFn(mod[fi].name, <<>>))
               /\ call_stack_' = [call_stack_ EXCEPT !.frames = <<>>]
          ELSE /\ call_stack_' = [frames |-> <<[fn |-> fi, block_idx |-> 0, instr_idx |-> 0]>>,
                                  cap |-> IF call_stack_.cap = 0
                                          THEN Grow(build.growth, 0) ELSE call_stack_.cap]
               /\ acts' = <<NewAct(fi)>>
               /\ phase' = "running"
               /\ UNCHANGED <<exit_code_, runs>>
    /\ UNCHANGED <<sm, lexer, parser, typing, prog, build, errors_, mod, externals_>>

\* Interpreter::execute up to the point where the entry function runs
execute(e) ==
    /\ phase = "idle"
    /\ Len(runs) < MaxRuns
    /\ values_' = EmptyMap
    /\ entry' = e
    /\ LET fi == get_function(mod, e)
       IN IF fi = 0
          THEN /\ runs' = Append(runs, [entry |-> e, thrown |-> TRUE, result |-> Unit,
                                        exit_code |-> exit_code_])
               /\ call_stack_' = [call_stack_ EXCEPT !.frames = <<>>]
               /\ UNCHANGED <<phase, exit_code_, acts>>
          ELSE IF mod[fi].name \in externals_
          THEN /\ finish_execute(e, ExternalFn(mod[fi].name, <<>>))
               /\ call_stack_' = [call_stack_ EXCEPT !.frames = <<>>]
          ELSE /\ call_stack_' = [frames |-> <<[fn |-> fi, block_idx |-> 0, instr_idx |-> 0]>>,
                                  cap |-> IF call_stack_.cap = 0
                                          THEN Grow(build.growth, 0) ELSE call_stack_.cap]
               /\ acts' = <<NewAct(fi)>>
               /\ phase' = "running"
               /\ UNCHANGED <<exit_code_, runs>>
    /\ UNCHANGED <<sm, lexer, parser, typing, prog, build, errors_, mod, externals_>>

\* call_function: the head of the outer while loop
loop_head ==
    /\ phase = "running"
    /\ Top.pc = "outer"
    /\ LET a  == Top
           fs == call_stack_.frames
           n  == Len(fs)
       IN acts' = [acts EXCEPT ![Len(acts)] =
            IF fs = <<>> \/ fs[n].fn # a.fn THEN [a EXCEPT !.pc = "epilogue"]
            ELSE IF fs[n].block_idx >= Len(mod[a.fn].blocks)
                 THEN [a EXCEPT !.pc = "epilogue",
                                !.cur = [Unbound EXCEPT !.idx = n, !.live = TRUE]]
                 ELSE [a EXCEPT !.pc = "inner", !.bb = fs[n].block_idx + 1,
                                !.cur = [Unbound EXCEPT !.idx = n, !.live = TRUE]]]
    /\ UNCHANGED <<sm, lexer, parser, typing, prog, build, phase, errors_, mod, externals_, values_, call_stack_,
                   exit_code_, entry, runs>>

\* call_function: the inner while loop ends at the end of the block
block_end ==
    /\ phase = "running"
    /\ Top.pc = "inner"
    /\ cur_instr_idx(Top) >= Len(mod[Top.fn].blocks[Top.bb].instrs)
    /\ acts' = [acts EXCEPT ![Len(acts)].pc = "after"]
    /\ UNCHANGED <<sm, lexer, parser, typing, prog, build, phase, errors_, mod, externals_, values_, call_stack_,
                   exit_code_, entry, runs>>

\* call_function: RET
exec_ret ==
    phase = "running" /\ \E a \in {Top} :
      /\ AtInstr(a, {"ret"})
      /\ LET in == CurInstr(a)
             rv == IF in.operands # <<>> THEN get_value(values_, in.operands[1])
                   ELSE a.result
         IN return_to_caller(rv, pop_back(call_stack_))
      /\ UNCHANGED <<sm, lexer, parser, typing, prog, build, errors_, mod, externals_>>

\* call_function: BR
exec_br ==
    phase = "running" /\ \E a \in {Top} :
      /\ AtInstr(a, {"br"})
      /\ LET t == CurInstr(a).target_block
         IN /\ call_stack_' = write_frames(a, t, 0)
            /\ acts' = [acts EXCEPT ![Len(acts)] =
                          [a EXCEPT !.pc = "after", !.cur = write_cur(a, t, 0)]]
      /\ UNCHANGED <<sm, lexer, parser, typing, prog, build, phase, errors_, mod, externals_, values_, exit_code_,
                     entry, runs>>

\* call_function: COND_BR
exec_cond_br ==
    phase = "running" /\ \E a \in {Top} :
      /\ AtInstr(a, {"cond_br"})
      /\ LET in == CurInstr(a)
             c  == get_value(values_, in.operands[1])
             t  == IF to_int(c, build.junk) # 0 THEN in.target_block ELSE in.else_block
         IN /\ call_stack_' = write_frames(a, t, 0)
            /\ acts' = [acts EXCEPT ![Len(acts)] =
                          [a EXCEPT !.pc = "after", !.cur = write_cur(a, t, 0)]]
      /\ UNCHANGED <<sm, lexer, parser, typing, prog, build, phase, errors_, mod, externals_, values_, exit_code_,
                     entry, runs>>

\* The end of exec_instruction and the step past it: store the result,
\* keep it as `result`, current.instr_idx++.
complete_instr(a, in, rv) ==
    /\ values_' = IF valid(in.result) THEN set_value(values_, in.result, rv) ELSE values_
    /\ call_stack_' = write_frames(a, cur_block_idx(a), cur_instr_idx(a) + 1)
    /\ acts' = [acts EXCEPT ![Len(acts)] =
                  [a EXCEPT !.result = rv,
                            !.cur = IF a.cur.live THEN @
                                    ELSE [@ EXCEPT !.instr_idx = cur_instr_idx(a) + 1]]]

\* exec_instruction: every opcode but CALL and the terminators
exec_instruction ==
    phase = "running" /\ \E a \in {Top} :
      /\ AtInstr(a, {"nop", "const_int", "const_float", "add", "sub", "mul", "div",
                     "neg", "cmp_eq", "cmp_ne", "cmp_lt", "cmp_le", "cmp_gt", "cmp_ge"})
      /\ ~div_overflows(CurInstr(a), values_, build.junk)
      /\ complete_instr(a, CurInstr(a), exec_result(CurInstr(a), values_, build.junk))
      /\ UNCHANGED <<sm, lexer, parser, typing, prog, build, phase, errors_, mod, externals_, exit_code_, entry, runs>>

\* exec_instruction, DIV of the most negative int by -1: the quotient
\* overflows int64_t.  The division instruction either traps, which ends
\* the process, or leaves the most negative int.
exec_div_overflow ==
    phase = "running" /\ \E a \in {Top} :
      /\ AtInstr(a, {"div"})
      /\ div_overflows(CurInstr(a), values_, build.junk)
      /\ \/ /\ phase' = "faulted"
            /\ UNCHANGED <<values_, call_stack_, acts>>
         \/ /\ complete_instr(a, CurInstr(a), IntV(IntMin))
            /\ UNCHANGED phase
      /\ UNCHANGED <<sm, lexer, parser, typing, prog, build, errors_, mod, externals_, exit_code_, entry, runs>>

\* exec_instruction, CALL: the callee is a registered external
exec_call_external ==
    phase = "running" /\ \E a \in {Top} :
      /\ AtInstr(a, {"call"})
      /\ CurInstr(a).callee \in externals_
      /\ LET in == CurInstr(a)
             args == [i \in 1..Len(in.operands) |-> get_value(values_, in.operands[i])]
         IN complete_instr(a, in, ExternalFn(in.callee, args))
      /\ UNCHANGED <<sm, lexer, parser, typing, prog, build, phase, errors_, mod, externals_, exit_code_, entry, runs>>

\* exec_instruction, CALL: no external and no module function of that name
exec_call_unresolved ==
    phase = "running" /\ \E a \in {Top} :
      /\ AtInstr(a, {"call"})
      /\ CurInstr(a).callee \notin externals_
      /\ get_function(mod, CurInstr(a).callee) = 0
      /\ complete_instr(a, CurInstr(a), Unit)
      /\ UNCHANGED <<sm, lexer, parser, typing, prog, build, phase, errors_, mod, externals_, exit_code_, entry, runs>>

\* exec_instruction, CALL, with the module looked up without the externals
\* registry having been consulted first.
exec_call_function_first ==
    phase = "running" /\ \E a \in {Top} :
      /\ AtInstr(a, {"call"})
      /\ get_function(mod, CurInstr(a).callee) # 0
      /\ LET f == get_function(mod, CurInstr(a).callee)
             a2 == [a EXCEPT !.pc = "in_call", !.at = cur_instr_idx(a) + 1]
         IN /\ call_stack_' = push_frame(f)
            /\ acts' = Append(after_push([acts EXCEPT ![Len(acts)] = a2]), NewAct(f))
      /\ UNCHANGED <<sm, lexer, parser, typing, prog, build, phase, errors_, mod, externals_, values_, exit_code_,
                     entry, runs>>

\* exec_instruction, CALL: call_function on a module function, up to the
\* push of its frame (arguments are gathered and not bound)
exec_call_function ==
    phase = "running" /\ \E a \in {Top} :
      /\ AtInstr(a, {"call"})
      /\ CurInstr(a).callee \notin externals_
      /\ get_function(mod, CurInstr(a).callee) # 0
      /\ LET f == get_function(mod, CurInstr(a).callee)
             a2 == [a EXCEPT !.pc = "in_call", !.at = cur_instr_idx(a) + 1]
         IN /\ call_stack_' = push_frame(f)
            /\ acts' = Append(after_push([acts EXCEPT ![Len(acts)] = a2]), NewAct(f))
      /\ UNCHANGED <<sm, lexer, parser, typing, prog, build, phase, errors_, mod, externals_, values_, exit_code_,
                     entry, runs>>

\* call_function: after the inner loop, fall through to the next block,
\* leave the loop, or go round again after a branch
after_block ==
    /\ phase = "running"
    /\ Top.pc = "after"
    /\ LET a == Top
           i == cur_instr_idx(a)
           b == cur_block_idx(a)
           n == Len(mod[a.fn].blocks[a.bb].instrs)
           nb == Len(mod[a.fn].blocks)
       IN IF i >= n /\ b < nb - 1
          THEN /\ call_stack_' = write_frames(a, b + 1, 0)
               /\ acts' = [acts EXCEPT ![Len(acts)] =
                             [a EXCEPT !.pc = "outer", !.cur = write_cur(a, b + 1, 0)]]
          ELSE /\ acts' = [acts EXCEPT ![Len(acts)].pc =
                             IF i >= n THEN "epilogue" ELSE "outer"]
               /\ UNCHANGED call_stack_
    /\ UNCHANGED <<sm, lexer, parser, typing, prog, build, phase, errors_, mod, externals_, values_, exit_code_,
                   entry, runs>>

\* call_function: pop the frame if still on the stack, return result
epilogue ==
    /\ phase = "running"
    /\ Top.pc = "epilogue"
    /\ LET fs == call_stack_.frames
       IN return_to_caller(Top.result,
              IF fs # <<>> /\ fs[Len(fs)].fn = Top.fn THEN pop_back(call_stack_)
              ELSE call_stack_)
    /\ UNCHANGED <<sm, lexer, parser, typing, prog, build, errors_, mod, externals_>>

Next ==
    \/ Analyze
    \/ Lower
    \/ \E n \in ExternNames : register_external(n)
    \/ \E e \in EntryNames : execute(e)
    \/ loop_head
    \/ block_end
    \/ exec_ret
    \/ exec_br
    \/ exec_cond_br
    \/ exec_instruction
    \/ exec_div_overflow
    \/ exec_call_external
    \/ exec_call_unresolved
    \/ exec_call_function
    \/ after_block
    \/ epilogue

Spec == Init /\ [][Next]_vars

\* ------------------------------------------------------------------------
\* Properties of the lowered module
\* ------------------------------------------------------------------------

\* C1: after lowering, every non-empty basic block of every lowered
\* function has ret, br or cond_br as its last instruction.
C1_EveryBlockEndsInTerminator ==
    phase \in {"idle", "running"} =>
        \A f \in DOMAIN mod : \A b \in DOMAIN mod[f].blocks :
            LET ins == mod[f].blocks[b].instrs
            IN ins # <<>> => ins[Len(ins)].op \in Terminators

\* C2: for a program that passes semantic analysis without errors, every
\* operand of every lowered instruction is a valid id (not 0) that is a
\* parameter id or the result of an instruction of the same function.
C2_OperandsAreDefined ==
    (phase \in {"idle", "running"} /\ errors_ = <<>>) =>
        \A f \in DOMAIN mod :
            LET bs   == mod[f].blocks
                defs == (1..Len(mod[f].param_types))
                        \cup UNION { { bs[b].instrs[i].result.id :
                                          i \in DOMAIN bs[b].instrs } :
                                      b \in DOMAIN bs }
            IN \A b \in DOMAIN bs : \A i \in DOMAIN bs[b].instrs :
                 \A o \in DOMAIN bs[b].instrs[i].operands :
                    /\ bs[b].instrs[i].operands[o].id # 0
                    /\ bs[b].instrs[i].operands[o].id \in defs

\* C3: within each lowered function the value ids come from a counter that
\* starts at 1 and only increases: every id that is the result of an
\* instruction lies above the parameter ids and below the counter, and is
\* the result of exactly one instruction of the function.
C3_ValueIdsUnique ==
    phase \in {"idle", "running"} =>
        \A f \in DOMAIN mod :
            LET bs  == mod[f].blocks
                pos == UNION { { <<b, i>> : i \in DOMAIN bs[b].instrs } :
                               b \in DOMAIN bs }
                res == { p \in pos : valid(bs[p[1]].instrs[p[2]].result) }
            IN /\ mod[f].next_value_id >= 1
               /\ \A p \in res :
                    /\ bs[p[1]].instrs[p[2]].result.id > Len(mod[f].param_types)
                    /\ bs[p[1]].instrs[p[2]].result.id < mod[f].next_value_id
               /\ \A p, q \in res :
                    bs[p[1]].instrs[p[2]].result.id = bs[q[1]].instrs[q[2]].result.id
                        => p = q

\* C3 witness: a lowered function with two parameters whose body holds an
\* instruction with a result (the third id of the counter), next to a
\* function with several results.
C3_Witness ==
    /\ phase = "idle"
    /\ \E f \in DOMAIN mod :
         /\ Len(mod[f].param_types) = 2
         /\ \E b \in DOMAIN mod[f].blocks : \E i \in DOMAIN mod[f].blocks[b].instrs :
              mod[f].blocks[b].instrs[i].result.id = 3
    /\ \E f \in DOMAIN mod : mod[f].next_value_id >= 4 /\ mod[f].param_types = <<>>

\* C4: in every lowered function each block's id equals its index in the
\* block list, and every target of every br and cond_br is the id of a
\* block of that function.
C4_BranchTargetsExist ==
    phase \in {"idle", "running"} =>
        \A f \in DOMAIN mod :
            LET bs == mod[f].blocks
            IN /\ \A b \in DOMAIN bs : bs[b].id = b - 1
               /\ \A b \in DOMAIN bs : \A i \in DOMAIN bs[b].instrs :
                    LET in == bs[b].instrs[i]
                    IN /\ in.op \in {"br", "cond_br"} =>
                            \E t \in DOMAIN bs : bs[t].id = in.target_block
                       /\ in.op = "cond_br" =>
                            \E t \in DOMAIN bs : bs[t].id = in.else_block

\* ------------------------------------------------------------------------
\* Properties of the interpreter
\* ------------------------------------------------------------------------

\* C5: executing the same entry function again on the same Interpreter
\* (the first execute being the one a fresh Interpreter performs) yields the
\* same return value; the registered externals are pure.
C5_RepeatedExecuteSameResult ==
    \A i, j \in DOMAIN runs :
        (runs[i].entry = runs[j].entry /\ ~runs[i].thrown /\ ~runs[j].thrown)
            => runs[i].result = runs[j].result

\* C6: after every successful execute the exit code equals the returned
\* value when that value is an int, and 0 when it is unit or a float, also
\* after an earlier execute that returned a non-zero int.
C6_ExitCodeFollowsResult ==
    \A i \in DOMAIN runs :
        ~runs[i].thrown =>
            runs[i].exit_code = IF is_int(runs[i].result) THEN runs[i].result.num
                                ELSE 0

\* C7: executing a bare ret (no operand) pops the frame and makes the
\* function return unit, whatever was executed before it in the function.
C7_BareRetReturnsUnit ==
    [][ (phase = "running" /\ AtInstr(Top, {"ret"}) /\ CurInstr(Top).operands = <<>>)
          => /\ Len(call_stack_'.frames) = Len(call_stack_.frames) - 1
             /\ IF Len(acts) = 1
                THEN runs'[Len(runs')].result = Unit
                ELSE acts'[Len(acts')].result = Unit ]_vars

\* C8: a call resolves its callee among the registered externals first;
\* only when no external has that name does it run the module function of
\* that name; a name found in neither evaluates to unit and the caller goes
\* on with its next instruction.
C8_CallResolution ==
    [][ (phase = "running" /\ AtInstr(Top, {"call"})) =>
          LET in   == CurInstr(Top)
              args == [i \in 1..Len(in.operands) |-> get_value(values_, in.operands[i])]
              n    == Len(acts)
          IN IF in.callee \in externals_
             THEN /\ Len(acts') = n
                  /\ acts'[n].result = ExternalFn(in.callee, args)
             ELSE IF \E f \in DOMAIN mod : mod[f].name = in.callee
             THEN /\ Len(acts') = n + 1
                  /\ mod[acts'[n + 1].fn].name = in.callee
             ELSE /\ Len(acts') = n
                  /\ acts'[n].result = Unit
                  /\ acts'[n].pc = "inner"
                  /\ phase' = "running" ]_vars

\* C8 witness: main has executed a call of f while f is both a registered
\* external and a function of the module; the external's value came back.
C8_Witness ==
    /\ phase = "running"
    /\ "f" \in externals_
    /\ \E f \in DOMAIN mod : mod[f].name = "f"
    /\ Len(acts) = 1
    /\ mod[Top.fn].name = "main"
    /\ Top.result = IntV(99)

\* C9: when a module function is entered by a call, the value bound to the
\* SSA id of its i-th parameter is the value of the i-th argument of that
\* call.
C9_ArgumentsBoundToParameters ==
    (phase = "running" /\ Len(acts) >= 2 /\ Top.pc = "outer" /\ Top.cur = Unbound) =>
        LET c  == acts[Len(acts) - 1]
            in == mod[c.fn].blocks[c.bb].instrs[c.at]
        IN \A i \in 1..Len(mod[Top.fn].param_types) :
              i <= Len(in.operands) =>
                 get_value(values_, [id |-> i, type |-> mod[Top.fn].param_types[i]])
                    = get_value(values_, in.operands[i])

\* C10: for `let x = 1; if c { let x = 2; } return x;` the function returns
\* the value x had before the if, 1, for every value of c.
C10_ReadAfterJoinIsPreBranchValue ==
    \A i \in DOMAIN runs :
        (/\ runs[i].entry = "main"
         /\ ~runs[i].thrown
         /\ \E c \in {0, 1} :
              prog[Len(prog)].body =
                 <<LetStmt("x", I(1)), IfStmt(I(c), <<LetStmt("x", I(2))>>, <<>>),
                   ReturnStmt(X)>>)
        => runs[i].result = IntV(1)

\* C11: `if c { return 1; } else { return 2; }` lowers to the entry block
\* plus exactly if.then, if.else and if.end, the entry block ending in a
\* cond_br on c to if.then and if.else; interpreting it returns 1 when c is
\* non-zero and 2 when c is zero.
C11_IfElseLoweredAndInterpreted ==
    \A c \in {0, 1} :
        (/\ phase \in {"idle", "running"}
         /\ prog[Len(prog)].body =
               <<IfStmt(I(c), <<ReturnStmt(I(1))>>, <<ReturnStmt(I(2))>>)>>)
        => LET bs == mod[Len(mod)].blocks
               en == bs[1].instrs
           IN /\ Len(bs) = 4
              /\ bs[1].label = "entry"
              /\ {bs[b].label : b \in 2..4} = {"if.then", "if.else", "if.end"}
              /\ en # <<>>
              /\ en[Len(en)].op = "cond_br"
              /\ \E t, e \in 2..4 :
                    /\ bs[t].label = "if.then" /\ en[Len(en)].target_block = bs[t].id
                    /\ bs[e].label = "if.else" /\ en[Len(en)].else_block = bs[e].id
              /\ \A i \in DOMAIN runs :
                    (runs[i].entry = "main" /\ ~runs[i].thrown)
                       => runs[i].result = IF c # 0 THEN IntV(1) ELSE IntV(2)

\* C12: the div instruction on two int operands completes without
\* faulting: with a zero divisor it yields int 0, and otherwise the
\* quotient truncated toward zero, as an int of the interpreter's width.
C12_IntDivCompletes ==
    [][ (/\ phase = "running"
         /\ AtInstr(Top, {"div"})
         /\ is_int(get_value(values_, CurInstr(Top).operands[1]))
         /\ is_int(get_value(values_, CurInstr(Top).operands[2])))
        => LET in == CurInstr(Top)
               a  == get_value(values_, in.operands[1]).num
               b  == get_value(values_, in.operands[2]).num
               q  == IF b = 0 THEN 0 ELSE TruncDiv(a, b)
           IN /\ phase' = "running"
              /\ q \in IntMin..IntMax
              /\ get_value(values_', in.result) = IntV(q) ]_vars

\* C13 as stated: no execute raises an exception (no registered external
\* throws).
C13_ExecuteNeverThrows ==
    \A i \in DOMAIN runs : ~runs[i].thrown

\* C13, amended: an execute raises (std::runtime_error) exactly when the
\* module has no function of the entry name; with the entry function
\* present and no external throwing, a completed execute has returned a
\* value.
C13_ThrowsExactlyOnMissingEntry ==
    \A i \in DOMAIN runs :
        runs[i].thrown <=> ~(\E f \in DOMAIN mod : mod[f].name = runs[i].entry)

\* C13 witness: on one interpreter, an execute of a missing entry function
\* has raised and an execute of main has returned.
C13_Witness ==
    /\ Len(runs) = 2
    /\ runs[1].thrown /\ runs[1].entry = "nope"
    /\ ~runs[2].thrown /\ runs[2].entry = "main"

\* ------------------------------------------------------------------------
\* Semantic analysis on its own: main(p: int) with a body of three entries
\* of SemaStmts, and the callee f(a: int) -> int declared before or after
\* main.  g is declared nowhere.
\* ------------------------------------------------------------------------
Y == Identifier("y")

SemaStmts ==
    { <<>>,
      <<LetStmt("x", I(1))>>,
      <<LetStmt("x", FloatLiteral(5, 2))>>,
      <<LetStmt("p", I(1))>>,
      <<Block(<<LetStmt("x", FloatLiteral(5, 2)), ExprStmt(CallExpr("f", <<X>>))>>)>>,
      <<IfStmt(Identifier("p"), <<LetStmt("y", I(1))>>, <<ExprStmt(Y)>>)>>,
      <<WhileStmt(Identifier("p"), <<LetStmt("y", I(2)), LetStmt("y", I(3))>>)>>,
      <<ExprStmt(Y)>>,
      <<ExprStmt(CallExpr("f", <<X>>))>>,
      <<LetStmt("x", FloatLiteral(5, 2)), ExprStmt(CallExpr("f", <<X>>))>>,
      <<ExprStmt(CallExpr("f", <<>>))>>,
      <<ExprStmt(CallExpr("f", <<I(1), CallExpr("f", <<>>)>>))>>,
      <<ExprStmt(CallExpr("f", <<I(1), Y>>))>>,
      <<ExprStmt(CallExpr("g", <<Y>>))>> }

SemaCallee ==
    FnDecl("f", <<Param("a", "int")>>, "int", <<ReturnStmt(Identifier("a"))>>)

SemaPrograms ==
    UNION { { <<SemaCallee, FnDecl("main", <<Param("p", "int")>>, "none", a \o b \o c)>>,
              <<FnDecl("main", <<Param("p", "int")>>, "none", a \o b \o c), SemaCallee>> } :
            a \in SemaStmts, b \in SemaStmts, c \in SemaStmts }

SemaInit ==
    /\ sm = NoSources
    /\ lexer = NoLexer
    /\ parser = NoParser
    /\ typing = NoTyping
    /\ prog \in SemaPrograms
    /\ build = [growth |-> "double", keep |-> TRUE, junk |-> 0]
    /\ phase = "parsed"
    /\ errors_ = <<>>
    /\ mod = <<>>
    /\ externals_ = {}
    /\ values_ = EmptyMap
    /\ call_stack_ = [frames |-> <<>>, cap |-> 0]
    /\ exit_code_ = 0
    /\ acts = <<>>
    /\ entry = ""
    /\ runs = <<>>

SemaNext == Analyze

SemaSpec == SemaInit /\ [][SemaNext]_vars

\* What lexical scoping asks of a program, stated on the syntax alone: the
\* diagnostics of an expression read where the names `vis` are visible, and
\* of a statement list whose own scope has declared `here` so far inside the
\* enclosing names `outer`.  A let declares its name for the statements after
\* it in the same list; a block, an if branch and a while body start a list
\* of their own.
RECURSIVE lexical_expr(_, _, _)
RECURSIVE lexical_args(_, _, _)
RECURSIVE lexical_stmts(_, _, _, _)

lexical_args(as, vis, arity) ==
    IF as = <<>> THEN <<>>
    ELSE lexical_expr(Head(as), vis, arity) \o lexical_args(Tail(as), vis, arity)

lexical_expr(e, vis, arity) ==
    CASE e.k = "id" ->
           IF e.name \in vis THEN <<>>
           ELSE <<[kind |-> "UNDEFINED_VARIABLE", what |-> e.name]>>
      [] e.k = "bin" ->
           lexical_expr(e.left, vis, arity) \o lexical_expr(e.right, vis, arity)
      [] e.k = "un" -> lexical_expr(e.operand, vis, arity)
      [] e.k = "group" -> lexical_expr(e.inner, vis, arity)
      [] e.k = "call" ->
           (IF e.callee \in DOMAIN arity /\ Len(e.args) # arity[e.callee]
            THEN <<[kind |-> "WRONG_ARG_COUNT", what |-> e.callee]>> ELSE <<>>)
           \o lexical_args(e.args, vis, arity)
      [] OTHER -> <<>>

lexical_stmts(ss, outer, here, arity) ==
    IF ss = <<>> THEN <<>>
    ELSE LET s == Head(ss)
             vis == outer \cup here
         IN CASE s.k = "let" ->
                   lexical_expr(s.init, vis, arity)
                   \o (IF s.name \in here
                       THEN <<[kind |-> "DUPLICATE_DEFINITION", what |-> s.name]>>
                       ELSE <<>>)
                   \o lexical_stmts(Tail(ss), outer, here \cup {s.name}, arity)
              [] s.k = "if" ->
                   lexical_expr(s.condition, vis, arity)
                   \o lexical_stmts(s.then_branch, vis, {}, arity)
                   \o lexical_stmts(s.else_branch, vis, {}, arity)
                   \o lexical_stmts(Tail(ss), outer, here, arity)
              [] s.k = "while" ->
                   lexical_expr(s.condition, vis, arity)
                   \o lexical_stmts(s.body, vis, {}, arity)
                   \o lexical_stmts(Tail(ss), outer, here, arity)
              [] s.k = "block" ->
                   lexical_stmts(s.stmts, vis, {}, arity)
                   \o lexical_stmts(Tail(ss), outer, here, arity)
              [] s.k = "return" ->
                   lexical_expr(s.value, vis, arity)
                   \o lexical_stmts(Tail(ss), outer, here, arity)
              [] OTHER ->
                   lexical_expr(s.expr, vis, arity)
                   \o lexical_stmts(Tail(ss), outer, here, arity)

\* The parameter count of each function name of p.
Arity(p) ==
    [n \in { p[i].name : i \in DOMAIN p } |->
        Len(p[CHOOSE i \in DOMAIN p : p[i].name = n].params)]

RECURSIVE lexical_fns(_, _)
lexical_fns(p, i) ==
    IF i > Len(p) THEN <<>>
    ELSE lexical_stmts(p[i].body, {},
                       { p[i].params[j].name : j \in DOMAIN p[i].params }, Arity(p))
         \o lexical_fns(p, i + 1)

OfKind(kind, ds) == SelectSeq(ds, LAMBDA d : d.kind = kind)

\* C14: identifiers are resolved against lexical scopes -- every block, if
\* branch and while body is a scope of its own, so the undefined-variable
\* reports of an analysed program are exactly its uses of names that are
\* not visible where they are used, in source order; a program analysed
\* without errors has no such use.
C14_LexicalScopes ==
    phase = "analysed" =>
        /\ OfKind("UNDEFINED_VARIABLE", errors_)
              = OfKind("UNDEFINED_VARIABLE", lexical_fns(prog, 1))
        /\ errors_ = <<>> => OfKind("UNDEFINED_VARIABLE", lexical_fns(prog, 1)) = <<>>

\* The statements ss of a scope that has declared `here`, with every let that
\* repeats a name of the scope reduced to its initializer.
RECURSIVE without_rejected(_, _)
without_rejected(ss, here) ==
    IF ss = <<>> THEN <<>>
    ELSE IF Head(ss).k # "let"
         THEN <<Head(ss)>> \o without_rejected(Tail(ss), here)
         ELSE IF Head(ss).name \in here
              THEN <<ExprStmt(Head(ss).init)>> \o without_rejected(Tail(ss), here)
              ELSE <<Head(ss)>>
                   \o without_rejected(Tail(ss), here \cup {Head(ss).name})

Accepted(p) ==
    [i \in DOMAIN p |->
        [p[i] EXCEPT !.body = without_rejected(@,
                        { p[i].params[j].name : j \in DOMAIN p[i].params })]]

\* C15: a declaration is reported as a duplicate definition exactly when its
\* name is already declared in the innermost open scope (a name of an
\* enclosing scope only is shadowed silently), and a rejected declaration
\* leaves the earlier binding as it was: apart from the duplicate reports,
\* the program is analysed as if the rejected declarations were not there.
C15_DuplicateInInnermostScope ==
    phase = "analysed" =>
        /\ OfKind("DUPLICATE_DEFINITION", errors_)
              = OfKind("DUPLICATE_DEFINITION", lexical_fns(prog, 1))
        /\ SelectSeq(errors_, LAMBDA d : d.kind # "DUPLICATE_DEFINITION")
              = SelectSeq(analyze(Accepted(prog)),
                          LAMBDA d : d.kind # "DUPLICATE_DEFINITION")

\* x is declared, shadowed as a float inside a block (where f(x) is a type
\* mismatch), redeclared as a float in its own scope (rejected), and then
\* still passes as the int argument of f.
C15_Witness ==
    /\ phase = "analysed"
    /\ prog[2].body = <<LetStmt("x", I(1)),
                        Block(<<LetStmt("x", FloatLiteral(5, 2)),
                                ExprStmt(CallExpr("f", <<X>>))>>),
                        LetStmt("x", FloatLiteral(5, 2)),
                        ExprStmt(CallExpr("f", <<X>>))>>
    /\ errors_ = <<[kind |-> "TYPE_MISMATCH", what |-> "f"],
                   [kind |-> "DUPLICATE_DEFINITION", what |-> "x"]>>

\* C16: every call of a declared function, wherever the function is declared
\* and wherever the call stands, is reported with wrong arg count exactly
\* when its argument count differs from the parameter count.
C16_ArgCountAtEveryCall ==
    phase = "analysed" =>
        OfKind("WRONG_ARG_COUNT", errors_)
           = OfKind("WRONG_ARG_COUNT", lexical_fns(prog, 1))

\* ------------------------------------------------------------------------
\* The type of a chain  a op b op c  of binary operators, as check_expr
\* computes it for the left-nested BinaryExpr: the operand types are drawn
\* from every TypeKind, and each step joins the type so far with the next
\* operand's.
\* ------------------------------------------------------------------------
TypeKinds == {"int", "float", "void", "tensor", "function", "unknown"}

ChainLen == 3

TypeInit ==
    /\ sm = NoSources
    /\ lexer = NoLexer
    /\ typing \in { [operand_types |-> ts, result_types |-> <<ts[1]>>] :
                       ts \in [1..ChainLen -> TypeKinds] }
    /\ parser = NoParser
    /\ prog = <<>>
    /\ build = [growth |-> "double", keep |-> TRUE, junk |-> 0]
    /\ phase = "parsed"
    /\ errors_ = <<>>
    /\ mod = <<>>
    /\ externals_ = {}
    /\ values_ = EmptyMap
    /\ call_stack_ = [frames |-> <<>>, cap |-> 0]
    /\ exit_code_ = 0
    /\ acts = <<>>
    /\ entry = ""
    /\ runs = <<>>

\* check_expr on a BinaryExpr whose left operand has been typed
binary_type ==
    /\ Len(typing.result_types) < Len(typing.operand_types)
    /\ typing' = [typing EXCEPT !.result_types =
                     Append(@, binary_result_type(@[Len(@)],
                                   typing.operand_types[Len(@) + 1]))]
    /\ UNCHANGED <<sm, lexer, parser, prog, build, phase, errors_, mod, externals_, values_,
                   call_stack_, exit_code_, acts, entry, runs>>

TypeNext == binary_type

TypeSpec == TypeInit /\ [][TypeNext]_vars

\* C17: the binary result type is float for int with float (either order),
\* the common type for two operands of the same type, and unknown for every
\* other pair of operand types, a pair with exactly one unknown included.
C17_BinaryResultType ==
    \A i \in 1..(Len(typing.result_types) - 1) :
        LET left  == typing.result_types[i]
            right == typing.operand_types[i + 1]
        IN typing.result_types[i + 1] =
              IF {left, right} = {"int", "float"} THEN "float"
              ELSE IF left = right THEN left
              ELSE "unknown"

\* ------------------------------------------------------------------------
\* Parser (parser.cpp).  The lexer is taken as the token sequence it yields,
\* ending in EOF_TOKEN, which it goes on returning; the span of a token is
\* its index, its text the sequence of its characters.
\*
\* Besides the Parser members, the record keeps what happened on the way:
\* null_deref, when a member of a null std::unique_ptr<Expr> was used, and
\* hung, when a loop came round with the Parser exactly as it was one
\* iteration before.
\* ------------------------------------------------------------------------
Tok(type, text) == [type |-> type, text |-> text, span |-> 0]

EofToken == Tok("EOF_TOKEN", <<>>)

current_(ps) == ps.tokens[ps.at]

check(ps, type) == current_(ps).type = type

is_eof(ps) == check(ps, "EOF_TOKEN")

\* lexer_.peek(): the token after current_
peek(ps) == ps.tokens[IF ps.at < Len(ps.tokens) THEN ps.at + 1 ELSE ps.at]

error_at(ps, token, message) ==
    IF ps.panic_mode_ THEN ps
    ELSE [ps EXCEPT !.panic_mode_ = TRUE, !.had_error_ = TRUE,
                    !.errors_ = Append(@, [message |-> message, span |-> token.span])]

parse_error(ps, message) == error_at(ps, current_(ps), message)

RECURSIVE next_token(_)
\* The loop of Parser::advance: lexer_.next() until a token that is not a
\* lexical error.
next_token(ps) ==
    LET n == [ps EXCEPT !.at = IF @ < Len(ps.tokens) THEN @ + 1 ELSE @]
    IN IF current_(n).type = "ERROR"
       THEN next_token(error_at(n, current_(n), current_(n).text))
       ELSE n

advance(ps) == next_token([ps EXCEPT !.previous_ = current_(ps)])

match(ps, type) == IF check(ps, type) THEN advance(ps) ELSE ps

consume(ps, type, message) ==
    IF check(ps, type) THEN advance(ps) ELSE parse_error(ps, message)

RECURSIVE skip_newlines(_)
skip_newlines(ps) ==
    IF check(ps, "NEWLINE") THEN skip_newlines(advance(ps)) ELSE ps

RECURSIVE synchronize_loop(_)
synchronize_loop(ps) ==
    IF is_eof(ps) \/ ps.previous_.type \in {"SEMICOLON", "NEWLINE"}
       \/ current_(ps).type \in {"FN", "LET", "IF", "WHILE", "RETURN"}
    THEN ps
    ELSE synchronize_loop(advance(ps))

synchronize(ps) == synchronize_loop([ps EXCEPT !.panic_mode_ = FALSE])

\* Parser::Parser
Parser(tokens) ==
    next_token([tokens |-> tokens, at |-> 0, previous_ |-> EofToken,
                errors_ |-> <<>>, had_error_ |-> FALSE, panic_mode_ |-> FALSE,
                null_deref |-> FALSE, hung |-> FALSE])

DigitValue(c) ==
    CASE c = "0" -> 0 [] c = "1" -> 1 [] c = "2" -> 2 [] c = "3" -> 3 [] c = "4" -> 4
      [] c = "5" -> 5 [] c = "6" -> 6 [] c = "7" -> 7 [] c = "8" -> 8 [] c = "9" -> 9

RECURSIVE from_chars(_, _)
\* std::from_chars into an int64 that starts at 0: the value of the digits,
\* or the 0 left alone when they are out of range.
from_chars(text, acc) ==
    IF text = <<>> THEN acc
    ELSE IF acc * 10 + DigitValue(Head(text)) > IntMax THEN 0
    ELSE from_chars(Tail(text), acc * 10 + DigitValue(Head(text)))

RECURSIVE Pow10(_)
Pow10(n) == IF n = 0 THEN 1 ELSE 10 * Pow10(n - 1)

\* std::stod of  whole.frac , as the fraction it denotes
stod(text) ==
    LET point == CHOOSE i \in DOMAIN text : text[i] = "."
        frac  == Len(text) - point
    IN FloatLiteral(from_chars(SubSeq(text, 1, point - 1), 0) * Pow10(frac)
                       + from_chars(SubSeq(text, point + 1, Len(text)), 0),
                    Pow10(frac))

Node(ps, e) == [ps |-> ps, e |-> e]

\* e->span() for the span of the node under construction
span_of(ps, e) == IF e.k = "null" THEN [ps EXCEPT !.null_deref = TRUE] ELSE ps

BinOpOf(type) ==
    CASE type = "PLUS" -> "ADD" [] type = "MINUS" -> "SUB" [] type = "STAR" -> "MUL"
      [] type = "SLASH" -> "DIV" [] type = "EQ_EQ" -> "EQ" [] type = "BANG_EQ" -> "NE"
      [] type = "LT" -> "LT" [] type = "GT" -> "GT" [] type = "LT_EQ" -> "LE"
      [] type = "GT_EQ" -> "GE"

\* The body of the operator loops: the BinaryExpr of left and right for the
\* operator token just matched, its span merged from both operands'.
binary(type, left, right) ==
    Node(span_of(span_of(right.ps, left.e), right.e),
         BinaryExpr(BinOpOf(type), left.e, right.e))

RECURSIVE parse_equality(_)
RECURSIVE equality_loop(_)
RECURSIVE parse_comparison(_)
RECURSIVE comparison_loop(_)
RECURSIVE parse_term(_)
RECURSIVE term_loop(_)
RECURSIVE parse_factor(_)
RECURSIVE factor_loop(_)
RECURSIVE parse_unary(_)
RECURSIVE parse_call(_)
RECURSIVE parse_args(_, _)
RECURSIVE parse_primary(_)

parse_expr(ps) == parse_equality(ps)

equality_loop(expr) ==
    IF current_(expr.ps).type \in {"EQ_EQ", "BANG_EQ"}
    THEN Then(parse_comparison(advance(expr.ps)),
              LAMBDA right : Then(binary(current_(expr.ps).type, expr, right),
                                  LAMBDA bin : equality_loop(bin)))
    ELSE expr

parse_equality(ps) == Then(parse_comparison(ps), LAMBDA expr : equality_loop(expr))

comparison_loop(expr) ==
    IF current_(expr.ps).type \in {"LT", "GT", "LT_EQ", "GT_EQ"}
    THEN Then(parse_term(advance(expr.ps)),
              LAMBDA right : Then(binary(current_(expr.ps).type, expr, right),
                                  LAMBDA bin : comparison_loop(bin)))
    ELSE expr

parse_comparison(ps) == Then(parse_term(ps), LAMBDA expr : comparison_loop(expr))

term_loop(expr) ==
    IF current_(expr.ps).type \in {"PLUS", "MINUS"}
    THEN Then(parse_factor(advance(expr.ps)),
              LAMBDA right : Then(binary(current_(expr.ps).type, expr, right),
                                  LAMBDA bin : term_loop(bin)))
    ELSE expr

\* A parse_term whose right operand is a whole term again.
parse_term_right(ps) ==
    Then(parse_factor(ps),
         LAMBDA expr :
            IF current_(expr.ps).type \in {"PLUS", "MINUS"}
            THEN Then(parse_term(advance(expr.ps)),
                      LAMBDA right : binary(current_(expr.ps).type, expr, right))
            ELSE expr)

parse_term(ps) == Then(parse_factor(ps), LAMBDA expr : term_loop(expr))

factor_loop(expr) ==
    IF current_(expr.ps).type \in {"STAR", "SLASH"}
    THEN Then(parse_unary(advance(expr.ps)),
              LAMBDA right : Then(binary(current_(expr.ps).type, expr, right),
                                  LAMBDA bin : factor_loop(bin)))
    ELSE expr

parse_factor(ps) == Then(parse_unary(ps), LAMBDA expr : factor_loop(expr))

parse_unary(ps) ==
    IF current_(ps).type \in {"MINUS", "BANG"}
    THEN Then(parse_unary(advance(ps)),
              LAMBDA operand :
                 Node(span_of(operand.ps, operand.e),
                      UnaryExpr(IF check(ps, "MINUS") THEN "NEG" ELSE "NOT", operand.e)))
    ELSE parse_call(ps)

\* The do-while over the arguments of a call; a keyword argument  name =
\* is skipped over.
parse_args(ps, args) ==
    Then(parse_expr(IF check(ps, "IDENT") /\ peek(ps).type = "EQ"
                    THEN advance(advance(ps)) ELSE ps),
         LAMBDA a :
            IF check(a.ps, "COMMA") THEN parse_args(advance(a.ps), Append(args, a.e))
            ELSE [ps |-> a.ps, args |-> Append(args, a.e)])

parse_call(ps) ==
    Then(parse_primary(ps),
         LAMBDA expr :
            IF expr.e.k = "id" /\ check(expr.ps, "LPAREN")
            THEN Then(IF check(advance(expr.ps), "RPAREN")
                      THEN [ps |-> advance(expr.ps), args |-> <<>>]
                      ELSE parse_args(advance(expr.ps), <<>>),
                      LAMBDA c :
                         Node(consume(c.ps, "RPAREN", "Expected ')' after arguments"),
                              CallExpr(expr.e.name, c.args)))
            ELSE expr)

parse_primary(ps) ==
    CASE check(ps, "INT_LIT") ->
           Node(advance(ps), IntLiteral(from_chars(current_(ps).text, 0)))
      [] check(ps, "FLOAT_LIT") -> Node(advance(ps), stod(current_(ps).text))
      [] check(ps, "STRING_LIT") ->
           Node(advance(ps), [k |-> "string", value |-> current_(ps).text])
      [] check(ps, "IDENT") -> Node(advance(ps), Identifier(current_(ps).text))
      [] check(ps, "LPAREN") ->
           Then(parse_expr(advance(ps)),
                LAMBDA inner :
                   Node(consume(inner.ps, "RPAREN", "Expected ')' after expression"),
                        GroupExpr(inner.e)))
      [] OTHER -> Node(parse_error(ps, "Expected expression"), Null)

\* Parser::parse_type: the kind of the annotation
parse_type(ps) ==
    IF check(ps, "IDENT")
    THEN [ps |-> advance(ps),
          kind |-> CASE current_(ps).text = <<"i", "n", "t">> -> "int"
                     [] current_(ps).text = <<"f", "l", "o", "a", "t">> -> "float"
                     [] current_(ps).text = <<"v", "o", "i", "d">> -> "void"
                     [] current_(ps).text = <<"t", "e", "n", "s", "o", "r">> -> "tensor"
                     [] OTHER -> "unknown"]
    ELSE [ps |-> parse_error(ps, "Expected type"), kind |-> "unknown"]

RECURSIVE parse_stmt(_)
RECURSIVE parse_stmts(_, _)

\* The statement loop of a function body, an if or else branch, a while
\* body and a block:  while (!check(RBRACE) && !is_eof()) { parse_stmt();
\* skip_newlines(); }  keeping the statements that are not null.  An
\* iteration that consumes no token has reported an error, so panic_mode_
\* is set and the next iteration finds the Parser as this one left it.
parse_stmts(ps, stmts) ==
    IF ps.hung \/ check(ps, "RBRACE") \/ is_eof(ps) THEN [ps |-> ps, stmts |-> stmts]
    ELSE Then(parse_stmt(ps),
              LAMBDA st :
                 Then(skip_newlines(st.ps),
                      LAMBDA after :
                         IF after.at = ps.at
                         THEN [ps |-> [after EXCEPT !.hung = TRUE], stmts |-> stmts]
                         ELSE parse_stmts(after, IF st.e.k # "null"
                                                 THEN Append(stmts, st.e) ELSE stmts)))

\* skip_newlines(); consume(LBRACE, message); skip_newlines(); the statement
\* loop; consume(RBRACE, closing)
braced_stmts(ps, message, closing) ==
    Then(parse_stmts(skip_newlines(consume(skip_newlines(ps), "LBRACE", message)), <<>>),
         LAMBDA b : [ps |-> consume(b.ps, "RBRACE", closing), stmts |-> b.stmts])

parse_let_stmt(ps) ==
    IF ~check(advance(ps), "IDENT")
    THEN Node(parse_error(advance(ps), "Expected variable name"), Null)
    ELSE Then(IF check(advance(advance(ps)), "COLON")
              THEN parse_type(advance(advance(advance(ps))))
              ELSE [ps |-> advance(advance(ps)), kind |-> "none"],
              LAMBDA ty :
                 Then(parse_expr(consume(ty.ps, "EQ", "Expected '=' after variable name")),
                      LAMBDA init :
                         Node(match(init.ps, "SEMICOLON"),
                              [LetStmt(current_(advance(ps)).text, init.e)
                                  EXCEPT !.type_annot = ty.kind])))

parse_return_stmt(ps) ==
    Then(IF current_(advance(ps)).type \in {"SEMICOLON", "NEWLINE", "RBRACE", "EOF_TOKEN"}
         THEN Node(advance(ps), Null)
         ELSE parse_expr(advance(ps)),
         LAMBDA value : Node(match(value.ps, "SEMICOLON"), ReturnStmt(value.e)))

parse_if_stmt(ps) ==
    Then(parse_expr(advance(ps)),
         LAMBDA condition :
            Then(braced_stmts(condition.ps, "Expected '{' after if condition",
                              "Expected '}' after if body"),
                 LAMBDA then_branch :
                    IF check(skip_newlines(then_branch.ps), "ELSE")
                    THEN Then(braced_stmts(advance(skip_newlines(then_branch.ps)),
                                           "Expected '{' after else",
                                           "Expected '}' after else body"),
                              LAMBDA else_branch :
                                 Node(else_branch.ps,
                                      IfStmt(condition.e, then_branch.stmts,
                                             else_branch.stmts)))
                    ELSE Node(skip_newlines(then_branch.ps),
                              IfStmt(condition.e, then_branch.stmts, <<>>))))

parse_while_stmt(ps) ==
    Then(parse_expr(advance(ps)),
         LAMBDA condition :
            Then(braced_stmts(condition.ps, "Expected '{' after while condition",
                              "Expected '}' after while body"),
                 LAMBDA body : Node(body.ps, WhileStmt(condition.e, body.stmts))))

parse_block(ps) ==
    Then(braced_stmts(ps, "Expected '{'", "Expected '}'"),
         LAMBDA b : Node(b.ps, Block(b.stmts)))

parse_expr_stmt(ps) ==
    Then(parse_expr(ps), LAMBDA expr : Node(match(expr.ps, "SEMICOLON"), ExprStmt(expr.e)))

parse_stmt(ps) ==
    Then(skip_newlines(ps),
         LAMBDA s :
            CASE check(s, "LET") -> parse_let_stmt(s)
              [] check(s, "RETURN") -> parse_return_stmt(s)
              [] check(s, "IF") -> parse_if_stmt(s)
              [] check(s, "WHILE") -> parse_while_stmt(s)
              [] check(s, "LBRACE") -> parse_block(s)
              [] OTHER -> parse_expr_stmt(s))

RECURSIVE parse_params(_, _)
\* The do-while of Parser::parse_params, entered when the current token is
\* not RPAREN.
parse_params(ps, params) ==
    IF ~check(ps, "IDENT")
    THEN [ps |-> parse_error(ps, "Expected parameter name"), params |-> params]
    ELSE Then(IF check(advance(ps), "COLON") THEN parse_type(advance(advance(ps)))
              ELSE [ps |-> advance(ps), kind |-> "unknown"],
              LAMBDA ty :
                 IF check(ty.ps, "COMMA")
                 THEN parse_params(advance(ty.ps),
                                   Append(params, Param(current_(ps).text, ty.kind)))
                 ELSE [ps |-> ty.ps,
                       params |-> Append(params, Param(current_(ps).text, ty.kind))])

parse_fn_decl(ps) ==
    IF ~check(advance(ps), "IDENT")
    THEN [ps |-> parse_error(advance(ps), "Expected function name"),
          fn |-> FnDecl("", <<>>, "none", <<>>)]
    ELSE Then(consume(advance(advance(ps)), "LPAREN", "Expected '(' after function name"),
              LAMBDA open :
                 Then(IF check(open, "RPAREN") THEN [ps |-> open, params |-> <<>>]
                      ELSE parse_params(open, <<>>),
                      LAMBDA ps_params :
                         Then(consume(ps_params.ps, "RPAREN", "Expected ')' after parameters"),
                              LAMBDA close :
                                 Then(IF check(close, "ARROW") THEN parse_type(advance(close))
                                      ELSE [ps |-> close, kind |-> "none"],
                                      LAMBDA rt :
                                         Then(braced_stmts(rt.ps,
                                                 "Expected '{' before function body",
                                                 "Expected '}' after function body"),
                                              LAMBDA body :
                                                 [ps |-> body.ps,
                                                  fn |-> FnDecl(current_(advance(ps)).text,
                                                                ps_params.params, rt.kind,
                                                                body.stmts)])))))

RECURSIVE parse_loop(_, _)
\* The declaration loop of Parser::parse.  An iteration that consumes no
\* token has gone through error() and synchronize(), which returned at
\* once; the next iteration does the same and appends the same error again.
parse_loop(ps, functions) ==
    IF ps.hung \/ is_eof(ps) THEN [ps |-> ps, program |-> functions]
    ELSE Then(IF check(ps, "USE")
              THEN [ps |-> skip_newlines(match(advance(ps), "IDENT")), fns |-> <<>>]
              ELSE IF check(ps, "FN")
              THEN Then(parse_fn_decl(ps),
                        LAMBDA d : [ps |-> skip_newlines(d.ps), fns |-> <<d.fn>>])
              ELSE [ps |-> skip_newlines(synchronize(
                              parse_error(ps, "Expected function declaration"))),
                    fns |-> <<>>],
              LAMBDA it :
                 IF it.ps.at = ps.at /\ ~it.ps.hung
                 THEN [ps |-> [it.ps EXCEPT !.hung = TRUE], program |-> functions]
                 ELSE parse_loop(it.ps, functions \o it.fns))

\* Parser::parse
parse(ps) == parse_loop(skip_newlines(ps), <<>>)

\* ------------------------------------------------------------------------
\* Parsing on its own: the sources are  fn main() { return E; }  for the
\* expressions E of Exprs, fn main() { A B } for the statements A, B of
\* Stmts, and the texts of TopSources.
\* ------------------------------------------------------------------------
K(type) == Tok(type, <<>>)
Word(text) == Tok("IDENT", text)
Num(text) == Tok("INT_LIT", text)

\* The lexer's tokens for a text: spans in order, EOF_TOKEN last.
Lex(ts) ==
    [i \in 1..(Len(ts) + 1) |->
        IF i <= Len(ts) THEN [ts[i] EXCEPT !.span = i] ELSE [EofToken EXCEPT !.span = i]]

FnMain(body) ==
    <<K("FN"), Word(<<"m", "a", "i", "n">>), K("LPAREN"), K("RPAREN"), K("LBRACE")>>
    \o body \o <<K("RBRACE")>>

BinaryTokens ==
    {"PLUS", "MINUS", "STAR", "SLASH", "LT", "GT", "LT_EQ", "GT_EQ", "EQ_EQ", "BANG_EQ"}

Exprs ==
    { <<Num(<<"1">>), K(o), Num(<<"2">>), K(p), Num(<<"3">>)>> :
         o \in BinaryTokens, p \in BinaryTokens }
    \cup { <<K("LPAREN"), Num(<<"1">>), K(o), Num(<<"2">>), K("RPAREN"), K(p), Num(<<"3">>)>> :
         o \in BinaryTokens, p \in BinaryTokens }
    \cup { <<Num(<<"1">>), K(o), K("LPAREN"), Num(<<"2">>), K(p), Num(<<"3">>), K("RPAREN")>> :
         o \in BinaryTokens, p \in BinaryTokens }
    \cup { <<K(u), Num(<<"1">>), K(o), Num(<<"2">>)>> :
         u \in {"MINUS", "BANG"}, o \in BinaryTokens }
    \cup { <<Num(<<"1">>), K(o), K(u), K("BANG"), Num(<<"2">>)>> :
         u \in {"MINUS", "BANG"}, o \in BinaryTokens }

ExprSource(e) == FnMain(<<K("RETURN")>> \o e \o <<K("SEMICOLON")>>)

\* Statements with one syntax error each, and the place of the offending
\* token in them:  let 1;  and  return (1;
BadStmts ==
    { [tokens |-> <<K("LET"), Num(<<"1">>), K("SEMICOLON")>>, at |-> 2],
      [tokens |-> <<K("RETURN"), K("LPAREN"), Num(<<"1">>), K("SEMICOLON")>>, at |-> 4] }

Stmts ==
    { b.tokens : b \in BadStmts }
    \cup
    { <<>>,
      <<K("LET"), Word(<<"x">>), K("EQ"), Num(<<"1">>), K("SEMICOLON")>>,
      <<K("LET"), Word(<<"x">>), K("COLON"), Word(<<"i", "n", "t">>), K("EQ"),
        Num(<<"9", "9", "9", "9", "9">>), K("NEWLINE")>>,
      <<Num(<<"1">>), K("PLUS")>>,
      <<K("MINUS"), K("SEMICOLON")>>,
      <<Word(<<"f">>), K("LPAREN"), K("COMMA"), K("RPAREN"), K("SEMICOLON")>>,
      <<Word(<<"f">>), K("LPAREN"), Num(<<"1">>), K("COMMA"), Word(<<"a">>), K("EQ"),
        Num(<<"2">>), K("RPAREN"), K("SEMICOLON")>>,
      <<K("IF"), Word(<<"x">>), K("LBRACE"), K("RETURN"), K("RBRACE"), K("ELSE"),
        K("LBRACE"), Word(<<"x">>), K("RBRACE")>>,
      <<K("WHILE"), Word(<<"x">>), K("LBRACE"), K("LBRACE"), K("RBRACE"), K("RBRACE")>>,
      <<K("RPAREN")>>,
      <<K("RETURN"), K("NEWLINE")>>,
      <<Tok("FLOAT_LIT", <<"2", ".", "5">>), K("SEMICOLON")>>,
      <<Tok("STRING_LIT", <<"s">>), K("SEMICOLON")>> }

TopSources ==
    { <<>>,
      <<K("USE"), Word(<<"x">>), K("NEWLINE")>> \o FnMain(<<>>),
      <<Word(<<"x">>)>> \o FnMain(<<K("LET"), Num(<<"1">>), K("SEMICOLON")>>),
      FnMain(<<>>) \o <<K("NEWLINE"), Word(<<"x">>)>>,
      <<K("LET"), Word(<<"x">>), K("EQ"), Num(<<"1">>)>>,
      <<Tok("ERROR", <<"@">>)>> \o FnMain(<<>>),
      <<K("FN"), K("LPAREN"), K("RPAREN"), K("LBRACE"), K("RBRACE")>>,
      <<K("FN"), Word(<<"f">>), K("LPAREN"), Word(<<"a">>), K("COLON"),
        Word(<<"i", "n", "t">>), K("COMMA"), Word(<<"b">>), K("RPAREN"), K("ARROW"),
        Word(<<"i", "n", "t">>), K("LBRACE"), K("RBRACE")>>,
      FnMain(<<K("LET"), Num(<<"1">>), K("SEMICOLON")>>)
         \o FnMain(<<K("LET"), Num(<<"1">>), K("SEMICOLON")>>) }

Sources ==
    { ExprSource(e) : e \in Exprs } \cup { FnMain(a \o b) : a \in Stmts, b \in Stmts }
    \cup TopSources

ParseInit ==
    /\ sm = NoSources
    /\ lexer = NoLexer
    /\ parser \in { Parser(Lex(s)) : s \in Sources }
    /\ typing = NoTyping
    /\ prog = <<>>
    /\ build = [growth |-> "double", keep |-> TRUE, junk |-> 0]
    /\ phase = "source"
    /\ errors_ = <<>>
    /\ mod = <<>>
    /\ externals_ = {}
    /\ values_ = EmptyMap
    /\ call_stack_ = [frames |-> <<>>, cap |-> 0]
    /\ exit_code_ = 0
    /\ acts = <<>>
    /\ entry = ""
    /\ runs = <<>>

\* parser.parse() that returns, every pointer it went through non-null
Parse ==
    /\ phase = "source"
    /\ \E r \in {parse(parser)} :
          /\ ~r.ps.hung /\ ~r.ps.null_deref
          /\ parser' = r.ps
          /\ prog' = r.program
    /\ phase' = "parsed"
    /\ UNCHANGED <<sm, lexer, typing, build, errors_, mod, externals_, values_, call_stack_,
                   exit_code_, acts, entry, runs>>

\* parser.parse() that reads the span of a null expression: the process is
\* ended by the trap, or the read yields some span and parsing goes on.
parse_null_deref ==
    /\ phase = "source"
    /\ \E r \in {parse(parser)} :
          /\ r.ps.null_deref
          /\ parser' = r.ps
          /\ \/ phase' = "faulted" /\ prog' = prog
             \/ ~r.ps.hung /\ phase' = "parsed" /\ prog' = r.program
             \/ r.ps.hung /\ phase' = "hung" /\ prog' = prog
    /\ UNCHANGED <<sm, lexer, typing, build, errors_, mod, externals_, values_, call_stack_,
                   exit_code_, acts, entry, runs>>

\* parser.parse() caught in a loop that consumes no token
parse_no_progress ==
    /\ phase = "source"
    /\ \E r \in {parse(parser)} :
          /\ r.ps.hung /\ ~r.ps.null_deref
          /\ parser' = r.ps
    /\ phase' = "hung"
    /\ UNCHANGED <<sm, lexer, typing, prog, build, errors_, mod, externals_, values_, call_stack_,
                   exit_code_, acts, entry, runs>>

ParseNext == Parse \/ parse_null_deref \/ parse_no_progress

ParseSpec == ParseInit /\ [][ParseNext]_vars

\* C18: every syntax error is recorded at its token, and the parser leaves
\* panic mode before the next statement: of two statements of one function
\* body with a syntax error each, both errors are in the error list, each
\* with the span of its offending token.
C18_BothSyntaxErrorsRecorded ==
    phase = "parsed" =>
        \A a \in BadStmts, b \in BadStmts :
            parser.tokens = Lex(FnMain(a.tokens \o b.tokens)) =>
                [i \in DOMAIN parser.errors_ |-> parser.errors_[i].span]
                   = <<5 + a.at, 5 + Len(a.tokens) + b.at>>

\* C19: a child that is missing after a syntax error stays null and is never
\* dereferenced: parsing ends without a member of a null expression having
\* been used.
C19_NullChildNeverDereferenced ==
    phase # "source" => ~parser.null_deref

Level(op) ==
    CASE op \in {"EQ", "NE"} -> 1
      [] op \in {"LT", "LE", "GT", "GE"} -> 2
      [] op \in {"ADD", "SUB"} -> 3
      [] op \in {"MUL", "DIV"} -> 4

RECURSIVE to_chars(_)
\* The decimal digits of a natural number.
to_chars(n) ==
    LET c == CHOOSE d \in {"0", "1", "2", "3", "4", "5", "6", "7", "8", "9"} :
                 DigitValue(d) = n % 10
    IN IF n < 10 THEN <<c>> ELSE Append(to_chars(n \div 10), c)

RECURSIVE unparse(_)
\* The tokens an expression tree is written with.
unparse(e) ==
    CASE e.k = "int" -> <<Num(to_chars(e.value))>>
      [] e.k = "id" -> <<Word(e.name)>>
      [] e.k = "bin" ->
           unparse(e.left)
           \o <<K(CHOOSE t \in BinaryTokens : BinOpOf(t) = e.op)>>
           \o unparse(e.right)
      [] e.k = "un" ->
           <<K(IF e.op = "NEG" THEN "MINUS" ELSE "BANG")>> \o unparse(e.operand)
      [] e.k = "group" -> <<K("LPAREN")>> \o unparse(e.inner) \o <<K("RPAREN")>>
      [] OTHER -> <<>>

RECURSIVE well_nested(_)
\* No operand needs parentheses that are not there: the left operand of a
\* binary operator binds at least as tightly as the operator, its right
\* operand more tightly, and the operand of a unary operator is no binary
\* expression.
well_nested(e) ==
    CASE e.k = "bin" ->
           /\ e.left.k = "bin" => Level(e.left.op) >= Level(e.op)
           /\ e.right.k = "bin" => Level(e.right.op) > Level(e.op)
           /\ well_nested(e.left) /\ well_nested(e.right)
      [] e.k = "un" -> e.operand.k # "bin" /\ well_nested(e.operand)
      [] e.k = "group" -> well_nested(e.inner)
      [] OTHER -> TRUE

\* C20: an expression is parsed into the tree that precedence (unary, then
\* * /, then + -, then < <= > >=, then == !=) and grouping to the left give
\* it, a parenthesised expression being one operand: the tree of
\* return E;  is written with exactly the tokens of E and needs no further
\* parentheses.
C20_PrecedenceAndAssociativity ==
    \A e \in Exprs :
        phase # "source" /\ parser.tokens = Lex(ExprSource(e)) =>
            /\ phase = "parsed" /\ ~parser.had_error_
            /\ Len(prog) = 1 /\ Len(prog[1].body) = 1
            /\ prog[1].body[1].k = "return"
            /\ unparse(prog[1].body[1].value) = e
            /\ well_nested(prog[1].body[1].value)

\* return 1 + 2 * 3;  parsed as  1 + (2 * 3)
C20_Witness ==
    /\ phase = "parsed"
    /\ parser.tokens = Lex(ExprSource(<<Num(<<"1">>), K("PLUS"), Num(<<"2">>),
                                         K("STAR"), Num(<<"3">>)>>))
    /\ prog[1].body = <<ReturnStmt(BinaryExpr("ADD", I(1),
                                               BinaryExpr("MUL", I(2), I(3))))>>

\* C27: Parser::parse terminates on every token sequence: no iteration of the
\* declaration loop or of a statement loop comes round without a token
\* consumed, so the parser is never caught in a loop.
C27_ParseTerminates ==
    ~parser.hung /\ phase # "hung"

\* C26: SSA values are local to a call frame: while a called function runs,
\* no value that a caller defined before its call changes, so after the
\* return the caller finds them as they were.  (The values a caller defined
\* before the call are the results of the instructions before the call in
\* the caller's block.)
C26_CallerValuesSurviveCall ==
    [][\A k \in 1..(Len(acts) - 1) :
          acts[k].pc = "in_call" /\ acts[k].bb \in DOMAIN mod[acts[k].fn].blocks =>
             \A j \in 1..(acts[k].at - 1) :
                LET r == mod[acts[k].fn].blocks[acts[k].bb].instrs[j].result
                IN valid(r) /\ r.id \in DOMAIN values_ =>
                      r.id \in DOMAIN values_' /\ values_'[r.id] = values_[r.id]]_vars

\* C28: lowering a call emits a call instruction whose result is a fresh
\* value typed with the callee's declared return type: every call to a
\* function of the module declared with a return type carries a valid
\* result of that type, and a main ending in `return f(3, 4)`, f returning
\* its second parameter, returns that int.
C28_CallTypedWithDeclaredReturn ==
    /\ phase \in {"idle", "running"} =>
          \A f \in DOMAIN mod : \A b \in DOMAIN mod[f].blocks :
             \A i \in DOMAIN mod[f].blocks[b].instrs :
                LET in == mod[f].blocks[b].instrs[i]
                    g  == get_function(mod, in.callee)
                IN (in.op = "call" /\ g # 0 /\ mod[g].return_type # "void") =>
                      valid(in.result) /\ in.result.type = mod[g].return_type
    /\ \A r \in DOMAIN runs :
          (/\ runs[r].entry = "main" /\ ~runs[r].thrown /\ errors_ = <<>>
           /\ Len(prog) = 2 /\ prog[1].return_type = "int"
           /\ prog[2].body = <<ReturnStmt(CallF)>>)
             => runs[r].result = IntV(4)

\* C29: a br to the end block or the loop header is emitted only where a
\* branch or body falls off its last statement, so that in every lowered
\* block no instruction follows a ret, br or cond_br: a terminator is
\* always the last instruction of its block.
C29_NothingFollowsATerminator ==
    phase \in {"idle", "running"} =>
        \A f \in DOMAIN mod : \A b \in DOMAIN mod[f].blocks :
            LET ins == mod[f].blocks[b].instrs
            IN \A i \in DOMAIN ins : ins[i].op \in Terminators => i = Len(ins)

\* C30: lowering a unary expression (negate or logical-not) emits exactly
\* one instruction on the lowered operand and the expression's value is
\* that instruction's result: where a body ends in `let x = <unary>` and
\* `return x`, the entry block ends in a one-operand unary instruction with
\* a valid result followed by the ret of that result.
C30_UnaryEmitsOneInstruction ==
    phase \in {"idle", "running"} =>
        \A f \in DOMAIN prog :
            LET body == prog[f].body
                n    == Len(body)
            IN (/\ n >= 2 /\ body[n] = ReturnStmt(Identifier("x"))
                /\ body[n - 1].k = "let" /\ body[n - 1].name = "x"
                /\ body[n - 1].init.k = "un") =>
                  LET ins == mod[f].blocks[1].instrs
                      m   == Len(ins)
                  IN /\ m >= 2
                     /\ ins[m].op = "ret"
                     /\ ins[m - 1].op \in {"neg", "not"}
                     /\ Len(ins[m - 1].operands) = 1
                     /\ valid(ins[m - 1].result)
                     /\ ins[m].operands = <<ins[m - 1].result>>

\* ------------------------------------------------------------------------
\* Source management (source.hpp, source.cpp).  A content is a sequence of
\* one-character strings; offsets count from 0 as in the code, so the byte
\* at offset i is content[i + 1].  files_ is the vector of loaded files.
\* ------------------------------------------------------------------------
\* UINT32_MAX, the largest SourceID; here the largest integer of the model.
INVALID_SOURCE_ID == 2147483647

\* SourceManager::compute_line_offsets: the loop over i with the table
\* built so far.
RECURSIVE line_offsets_loop(_, _, _)
line_offsets_loop(content, i, offsets) ==
    IF i >= Len(content) THEN offsets
    ELSE line_offsets_loop(content, i + 1,
                           IF content[i + 1] = "\n" THEN Append(offsets, i + 1)
                           ELSE offsets)

compute_line_offsets_at_newline(content) ==
    LET RECURSIVE at(_, _)
        at(i, offsets) ==
            IF i >= Len(content) THEN offsets
            ELSE at(i + 1, IF content[i + 1] = "\n" THEN Append(offsets, i)
                           ELSE offsets)
    IN at(0, <<0>>)

compute_line_offsets(content) == line_offsets_loop(content, 0, <<0>>)

SourceFile(path, content) ==
    [k |-> "file", path |-> path, content |-> content,
     line_offsets |-> compute_line_offsets(content)]

\* std::upper_bound over v[first .. first + count - 1] (0-based positions):
\* the position of the first element greater than x, by bisection.
RECURSIVE upper_bound(_, _, _, _)
upper_bound(v, first, count, x) ==
    IF count <= 0 THEN first
    ELSE LET step == count \div 2
             it   == first + step
         IN IF ~(x < v[it + 1])
            THEN upper_bound(v, it + 1, count - (step + 1), x)
            ELSE upper_bound(v, first, step, x)

\* SourceFile::offset_to_line_col: the pair <<line, column>>.
offset_to_line_col(sf, offset) ==
    IF sf.line_offsets = <<>> \/ offset > Len(sf.content) THEN <<0, 0>>
    ELSE LET it == upper_bound(sf.line_offsets, 0, Len(sf.line_offsets), offset)
         IN IF it = 0 THEN <<1, offset + 1>>
            ELSE <<it, offset - sf.line_offsets[it] + 1>>

\* The files on disk: std::ifstream opens the paths of this function and
\* fails on every other path.
Disk ==
    [p \in {"a.zero", "b.zero"} |->
        IF p = "a.zero" THEN <<"f", "n", "\n", "x">> ELSE <<>>]

\* SourceManager::load and load_from_string: the manager after the call and
\* the id returned.
load_always_pushes(files_, path) ==
    [files_ |-> Append(files_, SourceFile(path, IF path \in DOMAIN Disk
                                                THEN Disk[path] ELSE <<>>)),
     id     |-> IF path \in DOMAIN Disk THEN Len(files_) ELSE INVALID_SOURCE_ID]

load(files_, path) ==
    IF path \notin DOMAIN Disk THEN [files_ |-> files_, id |-> INVALID_SOURCE_ID]
    ELSE [files_ |-> Append(files_, SourceFile(path, Disk[path])),
          id     |-> Len(files_)]

load_from_string(files_, name, content) ==
    [files_ |-> Append(files_, SourceFile(name, content)), id |-> Len(files_)]

\* SourceManager::get: the file, or Null for nullptr.
get(files_, id) ==
    IF id = INVALID_SOURCE_ID \/ id >= Len(files_) THEN Null
    ELSE files_[id + 1]

file_count(files_) == Len(files_)

\* The contents loaded from strings: every text of at most MaxContent bytes
\* over a letter and the newline.
MaxContent == 3

MaxLoads == 2

Bytes(n) == [1..n -> {"a", "\n"}]

Contents == UNION { Bytes(n) : n \in 0..MaxContent }

Paths == {"a.zero", "b.zero", "missing.zero"}

SourceInit ==
    /\ sm = NoSources
    /\ lexer = NoLexer
    /\ parser = NoParser
    /\ typing = NoTyping
    /\ prog = <<>>
    /\ build = [growth |-> "double", keep |-> TRUE, junk |-> 0]
    /\ phase = "sources"
    /\ errors_ = <<>>
    /\ mod = <<>>
    /\ externals_ = {}
    /\ values_ = <<>>
    /\ call_stack_ = [cap |-> 0, frames |-> <<>>]
    /\ exit_code_ = 0
    /\ acts = <<>>
    /\ entry = ""
    /\ runs = <<>>

\* sm.load(path): the call is recorded with the id it returned and the
\* files held after it.
Load ==
    /\ phase = "sources"
    /\ Len(sm.loads) < MaxLoads
    /\ \E path \in Paths :
         \E r \in {load(sm.files_, path)} :
            sm' = [sm EXCEPT !.files_ = r.files_,
                             !.loads = Append(@, [from |-> "file", path |-> path,
                                                  content |-> <<>>, id |-> r.id,
                                                  files_ |-> r.files_])]
    /\ UNCHANGED <<lexer, parser, typing, prog, build, phase, errors_, mod, externals_,
                   values_, call_stack_, exit_code_, acts, entry, runs>>

\* sm.load_from_string("test.zero", content).
LoadFromString ==
    /\ phase = "sources"
    /\ Len(sm.loads) < MaxLoads
    /\ \E content \in Contents :
         \E r \in {load_from_string(sm.files_, "test.zero", content)} :
            sm' = [sm EXCEPT !.files_ = r.files_,
                             !.loads = Append(@, [from |-> "string", path |-> "test.zero",
                                                  content |-> content, id |-> r.id,
                                                  files_ |-> r.files_])]
    /\ UNCHANGED <<lexer, parser, typing, prog, build, phase, errors_, mod, externals_,
                   values_, call_stack_, exit_code_, acts, entry, runs>>

\* sm.get(id)->offset_to_line_col(offset) on a loaded file, for the offsets
\* up to one past the end of the content and one beyond.
OffsetToLineCol ==
    /\ phase = "sources"
    /\ \E id \in 0..(file_count(sm.files_) - 1) :
         \E offset \in 0..(Len(get(sm.files_, id).content) + 1) :
            sm' = [sm EXCEPT !.asked =
                      <<[id |-> id, offset |-> offset,
                         line_col |-> offset_to_line_col(get(sm.files_, id), offset)]>>]
    /\ UNCHANGED <<lexer, parser, typing, prog, build, phase, errors_, mod, externals_,
                   values_, call_stack_, exit_code_, acts, entry, runs>>

SourceNext == Load \/ LoadFromString \/ OffsetToLineCol

SourceSpec == SourceInit /\ [][SourceNext]_vars

\* A recorded load that the code is given a readable source for, and the
\* text it is given.
Opened(l) == l.from = "string" \/ l.path \in DOMAIN Disk

Given(l) == IF l.from = "string" THEN l.content ELSE Disk[l.path]

\* C24: source ids are dense and stable: the k-th successful load, from
\* file or from string and counting from 0, returns id k and leaves every
\* earlier file as it was; a failed file load returns the invalid id and
\* leaves the files as they were; get returns a file for exactly the ids
\* below the file count.
C24_DenseStableIds ==
    /\ \A n \in DOMAIN sm.loads :
          LET l      == sm.loads[n]
              before == IF n = 1 THEN <<>> ELSE sm.loads[n - 1].files_
              k      == Cardinality({ j \in 1..(n - 1) : Opened(sm.loads[j]) })
          IN IF Opened(l)
             THEN /\ l.id = k
                  /\ file_count(l.files_) = k + 1
                  /\ \A i \in 0..(k - 1) : get(l.files_, i) = get(before, i)
                  /\ get(l.files_, k).content = Given(l)
             ELSE /\ l.id = INVALID_SOURCE_ID
                  /\ l.files_ = before
    /\ \A id \in 0..(MaxLoads + 1) \cup {INVALID_SOURCE_ID} :
          (get(sm.files_, id) # Null) <=> id < file_count(sm.files_)

\* A file load has failed after a successful load.
C24_Witness ==
    \E n \in DOMAIN sm.loads :
        /\ n > 1
        /\ Opened(sm.loads[n - 1])
        /\ ~Opened(sm.loads[n])
        /\ sm.loads[n].id = INVALID_SOURCE_ID
        /\ file_count(sm.files_) >= 1

\* C25: in every loaded file, for every offset inside the content that is
\* not the position of a newline, offset_to_line_col gives a line of the
\* line-offset table whose start plus (column - 1) is the offset again; the
\* table starts with 0 and has one further entry per newline, in order,
\* each the offset of the byte after that newline.
C25_LineColRoundTrip ==
    \A n \in DOMAIN sm.files_ :
        LET sf       == sm.files_[n]
            newlines == { i \in 0..(Len(sf.content) - 1) : sf.content[i + 1] = "\n" }
        IN /\ \A offset \in 0..(Len(sf.content) - 1) :
                 offset \notin newlines =>
                    LET lc == offset_to_line_col(sf, offset)
                    IN /\ lc[1] \in DOMAIN sf.line_offsets
                       /\ sf.line_offsets[lc[1]] + (lc[2] - 1) = offset
           /\ sf.line_offsets[1] = 0
           /\ Len(sf.line_offsets) = 1 + Cardinality(newlines)
           /\ \A j \in 2..Len(sf.line_offsets) :
                 /\ sf.line_offsets[j] - 1 \in newlines
                 /\ sf.line_offsets[j - 1] < sf.line_offsets[j]

\* offset_to_line_col has answered for a byte that is not a newline on a
\* line after the first.
C25_Witness ==
    \E q \in { sm.asked[i] : i \in DOMAIN sm.asked } :
        LET sf == get(sm.files_, q.id)
        IN /\ q.offset < Len(sf.content)
           /\ sf.content[q.offset + 1] # "\n"
           /\ q.line_col[1] >= 2
           /\ sf.line_offsets[q.line_col[1]] + (q.line_col[2] - 1) = q.offset

\* ------------------------------------------------------------------------
\* Lexer (lexer.cpp).  A lexer state lx is the record of the Lexer members;
\* source_ is the SourceFile that sm.get(id) pointed at, or Null.  An
\* operator that moves the lexer returns the lexer reached, together with
\* the character or token it returns.
\* ------------------------------------------------------------------------
NUL == "NUL"

Span_point(id, offset) ==
    [source_id |-> id, start_offset |-> offset, end_offset |-> offset + 1]

Span_range(id, start, end) ==
    [source_id |-> id, start_offset |-> start, end_offset |-> end]

Lexer(files_, id) ==
    [source_id_ |-> id, source_ |-> get(files_, id), start_ |-> 0, current_ |-> 0,
     has_peeked_ |-> FALSE,
     peeked_ |-> [type |-> "EOF_TOKEN", span |-> Span_range(INVALID_SOURCE_ID, 0, 0),
                  text |-> <<>>],
     calls |-> <<>>]

is_at_end(lx) ==
    lx.source_.k = "null" \/ lx.current_ >= Len(lx.source_.content)

peek_char(lx) ==
    IF is_at_end(lx) THEN NUL ELSE lx.source_.content[lx.current_ + 1]

peek_next(lx) ==
    IF lx.source_.k = "null" \/ lx.current_ + 1 >= Len(lx.source_.content) THEN NUL
    ELSE lx.source_.content[lx.current_ + 2]

Lexer_advance(lx) ==
    IF is_at_end(lx) THEN [lx |-> lx, c |-> NUL]
    ELSE [lx |-> [lx EXCEPT !.current_ = @ + 1], c |-> lx.source_.content[lx.current_ + 1]]

Lexer_match(lx, expected) ==
    IF is_at_end(lx) THEN [lx |-> lx, ok |-> FALSE]
    ELSE IF peek_char(lx) # expected THEN [lx |-> lx, ok |-> FALSE]
    ELSE [lx |-> [lx EXCEPT !.current_ = @ + 1], ok |-> TRUE]

is_alpha(c) ==
    c \in {"a", "b", "c", "d", "e", "f", "g", "h", "i", "j", "k", "l", "m",
           "n", "o", "p", "q", "r", "s", "t", "u", "v", "w", "x", "y", "z",
           "A", "B", "C", "D", "E", "F", "G", "H", "I", "J", "K", "L", "M",
           "N", "O", "P", "Q", "R", "S", "T", "U", "V", "W", "X", "Y", "Z", "_"}

is_digit(c) == c \in {"0", "1", "2", "3", "4", "5", "6", "7", "8", "9"}

is_alnum(c) == is_alpha(c) \/ is_digit(c)

\* The loop of skip_line_comment after the two slashes.
RECURSIVE comment_loop(_)
comment_loop(lx) ==
    IF ~is_at_end(lx) /\ peek_char(lx) # "\n"
    THEN comment_loop(Lexer_advance(lx).lx)
    ELSE lx

skip_line_comment(lx) ==
    comment_loop(Lexer_advance(Lexer_advance(lx).lx).lx)

RECURSIVE skip_whitespace(_)
skip_whitespace(lx) ==
    IF is_at_end(lx) THEN lx
    ELSE LET c == peek_char(lx)
         IN IF c \in {" ", "\r", "\t"} THEN skip_whitespace(Lexer_advance(lx).lx)
            ELSE IF c = "/" /\ peek_next(lx) = "/"
                 THEN skip_whitespace(skip_line_comment(lx))
            ELSE lx

make_token(lx, type) ==
    [type |-> type,
     span |-> Span_range(lx.source_id_, lx.start_, lx.current_),
     text |-> IF lx.source_.k # "null"
              THEN SubSeq(lx.source_.content, lx.start_ + 1, lx.current_)
              ELSE <<>>]

\* The message is kept as a text of one element.
error_token(lx, message) ==
    [type |-> "ERROR", span |-> Span_point(lx.source_id_, lx.current_),
     text |-> <<message>>]

\* memcmp of the token's bytes from position start with rest.
check_keyword(lx, start, length, rest, type) ==
    IF lx.current_ - lx.start_ = start + length
       /\ SubSeq(lx.source_.content, lx.start_ + start + 1,
                 lx.start_ + start + length) = rest
    THEN type
    ELSE "IDENT"

identifier_type(lx) ==
    IF lx.source_.k = "null" THEN "IDENT"
    ELSE LET length == lx.current_ - lx.start_
             text0  == lx.source_.content[lx.start_ + 1]
         IN CASE text0 = "e" -> check_keyword(lx, 1, 3, <<"l", "s", "e">>, "ELSE")
              [] text0 = "f" ->
                   IF length > 1 /\ lx.source_.content[lx.start_ + 2] = "n"
                   THEN IF length = 2 THEN "FN" ELSE "IDENT"
                   ELSE "IDENT"
              [] text0 = "i" -> check_keyword(lx, 1, 1, <<"f">>, "IF")
              [] text0 = "l" -> check_keyword(lx, 1, 2, <<"e", "t">>, "LET")
              [] text0 = "r" ->
                   check_keyword(lx, 1, 5, <<"e", "t", "u", "r", "n">>, "RETURN")
              [] text0 = "w" -> check_keyword(lx, 1, 4, <<"h", "i", "l", "e">>, "WHILE")
              [] OTHER -> "IDENT"

RECURSIVE alnum_loop(_)
alnum_loop(lx) ==
    IF is_alnum(peek_char(lx)) THEN alnum_loop(Lexer_advance(lx).lx) ELSE lx

scan_identifier(lx) ==
    Then(alnum_loop(lx),
         LAMBDA l : [lx |-> l, tok |-> make_token(l, identifier_type(l))])

RECURSIVE digit_loop(_)
digit_loop(lx) ==
    IF is_digit(peek_char(lx)) THEN digit_loop(Lexer_advance(lx).lx) ELSE lx

scan_number(lx) ==
    Then(digit_loop(lx), LAMBDA l :
         IF peek_char(l) = "." /\ is_digit(peek_next(l))
         THEN Then(digit_loop(Lexer_advance(l).lx),
                   LAMBDA d : [lx |-> d, tok |-> make_token(d, "FLOAT_LIT")])
         ELSE [lx |-> l, tok |-> make_token(l, "INT_LIT")])

\* make_token(match(c) ? two : one).
one_or_two(lx, c, two, one) ==
    Then(Lexer_match(lx, c),
         LAMBDA m : [lx |-> m.lx, tok |-> make_token(m.lx, IF m.ok THEN two ELSE one)])

SingleCharTokens ==
    [c \in {"(", ")", "{", "}", "[", "]", ",", ":", ";", "\n", "+", "*", "/"} |->
        CASE c = "(" -> "LPAREN"     [] c = ")" -> "RPAREN"
          [] c = "{" -> "LBRACE"     [] c = "}" -> "RBRACE"
          [] c = "[" -> "LBRACKET"   [] c = "]" -> "RBRACKET"
          [] c = "," -> "COMMA"      [] c = ":" -> "COLON"
          [] c = ";" -> "SEMICOLON"  [] c = "\n" -> "NEWLINE"
          [] c = "+" -> "PLUS"       [] c = "*" -> "STAR"
          [] OTHER -> "SLASH"]

scan_token(lx) ==
    Then(skip_whitespace(lx),                      LAMBDA w :
    Then([w EXCEPT !.start_ = w.current_],         LAMBDA s :
    IF is_at_end(s) THEN [lx |-> s, tok |-> make_token(s, "EOF_TOKEN")]
    ELSE Then(Lexer_advance(s),                    LAMBDA a :
         IF is_alpha(a.c) THEN scan_identifier(a.lx)
         ELSE IF is_digit(a.c) THEN scan_number(a.lx)
         ELSE IF a.c \in DOMAIN SingleCharTokens
              THEN [lx |-> a.lx, tok |-> make_token(a.lx, SingleCharTokens[a.c])]
         ELSE CASE a.c = "-" -> one_or_two(a.lx, ">", "ARROW", "MINUS")
                [] a.c = "=" -> one_or_two(a.lx, "=", "EQ_EQ", "EQ")
                [] a.c = "!" -> one_or_two(a.lx, "=", "BANG_EQ", "BANG")
                [] a.c = "<" -> one_or_two(a.lx, "=", "LT_EQ", "LT")
                [] a.c = ">" -> one_or_two(a.lx, "=", "GT_EQ", "GT")
                [] OTHER -> [lx |-> a.lx,
                             tok |-> error_token(a.lx, "Unexpected character")])))

Lexer_next(lx) ==
    IF lx.has_peeked_ THEN [lx |-> [lx EXCEPT !.has_peeked_ = FALSE], tok |-> lx.peeked_]
    ELSE scan_token(lx)

Lexer_peek_rescans(lx) == scan_token(lx)

Lexer_peek(lx) ==
    IF ~lx.has_peeked_
    THEN Then(scan_token(lx),
              LAMBDA r : [lx  |-> [r.lx EXCEPT !.peeked_ = r.tok, !.has_peeked_ = TRUE],
                          tok |-> r.tok])
    ELSE [lx |-> lx, tok |-> lx.peeked_]

\* The source texts of the lexer runs: a first piece (every keyword, its
\* proper prefix of one byte less, its extension by one byte, other words,
\* numbers, every operator and delimiter, an unrecognised byte, a comment,
\* white space), an optional blank, and a short tail.
MaxCalls == 4

KeywordTexts ==
    { <<"f", "n">>, <<"l", "e", "t">>, <<"r", "e", "t", "u", "r", "n">>,
      <<"i", "f">>, <<"e", "l", "s", "e">>, <<"w", "h", "i", "l", "e">>,
      <<"u", "s", "e">> }

WordPieces ==
    KeywordTexts
    \cup { SubSeq(k, 1, Len(k) - 1) : k \in KeywordTexts }
    \cup { Append(k, "s") : k \in KeywordTexts }
    \cup { <<"x", "1">>, <<"_", "a">>, <<"F", "n">>, <<"f", "o", "r">> }

OtherPieces ==
    { <<>>, <<"1", "2">>, <<"1", ".", "5">>, <<"1", ".">>, <<".">>, <<"@">>,
      <<"-", ">">>, <<"-">>, <<"=", "=">>, <<"=">>, <<"!", "=">>, <<"!">>,
      <<"<", "=">>, <<"<">>, <<">", "=">>, <<">">>, <<"(">>, <<")">>, <<"{">>,
      <<"}">>, <<"[">>, <<"]">>, <<",">>, <<":">>, <<";">>, <<"+">>, <<"*">>,
      <<"/">>, <<"/", "/", "c">>, <<"\n">>, <<"\t">>, <<"\r">> }

Tails ==
    { <<>>, <<"x">>, <<"@">>, <<"\n", "y">>, <<"=">>, <<">">>, <<"1">>,
      <<"/", "/", "c", "\n">>, <<" ", "@", "x">> }

LexSources ==
    { a \o s \o b : a \in WordPieces \cup OtherPieces, s \in { <<>>, <<" ">> },
                    b \in Tails }

\* Lexer lexer(sm, id) after sm.load_from_string("test.zero", text); on the
\* empty manager also with the invalid id, where sm.get gives nullptr.
LexInit ==
    /\ \E c \in LexSources :
         /\ sm \in { [NoSources EXCEPT !.files_ = <<>>],
                     [NoSources EXCEPT
                         !.files_ = load_from_string(<<>>, "test.zero", c).files_] }
         /\ lexer = Lexer(sm.files_, IF sm.files_ = <<>> THEN INVALID_SOURCE_ID ELSE 0)
    /\ parser = NoParser
    /\ typing = NoTyping
    /\ prog = <<>>
    /\ build = [growth |-> "double", keep |-> TRUE, junk |-> 0]
    /\ phase = "lexing"
    /\ errors_ = <<>>
    /\ mod = <<>>
    /\ externals_ = {}
    /\ values_ = <<>>
    /\ call_stack_ = [cap |-> 0, frames |-> <<>>]
    /\ exit_code_ = 0
    /\ acts = <<>>
    /\ entry = ""
    /\ runs = <<>>

\* lexer.next(): the call and the token it returned are recorded.
CallNext ==
    /\ phase = "lexing"
    /\ Len(lexer.calls) < MaxCalls
    /\ \E r \in {Lexer_next(lexer)} :
         lexer' = [r.lx EXCEPT !.calls = Append(@, [op |-> "next", tok |-> r.tok])]
    /\ UNCHANGED <<sm, parser, typing, prog, build, phase, errors_, mod, externals_,
                   values_, call_stack_, exit_code_, acts, entry, runs>>

\* lexer.peek().
CallPeek ==
    /\ phase = "lexing"
    /\ Len(lexer.calls) < MaxCalls
    /\ \E r \in {Lexer_peek(lexer)} :
         lexer' = [r.lx EXCEPT !.calls = Append(@, [op |-> "peek", tok |-> r.tok])]
    /\ UNCHANGED <<sm, parser, typing, prog, build, phase, errors_, mod, externals_,
                   values_, call_stack_, exit_code_, acts, entry, runs>>

LexNext == CallNext \/ CallPeek

LexSpec == LexInit /\ [][LexNext]_vars

\* C21: every token the lexer returns, error tokens and the end-of-file
\* token included, has a span with start <= end and both offsets at most
\* the length of the file.
C21_SpanWithinFile ==
    \A i \in DOMAIN lexer.calls :
        LET span == lexer.calls[i].tok.span
        IN lexer.source_.k # "null" =>
              /\ span.start_offset <= span.end_offset
              /\ span.end_offset <= Len(lexer.source_.content)

\* A text shaped like an identifier: a letter or underscore followed by
\* letters, digits and underscores.
identifier_shaped(text) ==
    /\ text # <<>>
    /\ is_alpha(text[1])
    /\ \A i \in DOMAIN text : is_alnum(text[i])

\* The token type of each keyword of the language.
KeywordType ==
    [k \in KeywordTexts |->
        CASE k = <<"f", "n">> -> "FN"
          [] k = <<"l", "e", "t">> -> "LET"
          [] k = <<"r", "e", "t", "u", "r", "n">> -> "RETURN"
          [] k = <<"i", "f">> -> "IF"
          [] k = <<"e", "l", "s", "e">> -> "ELSE"
          [] k = <<"w", "h", "i", "l", "e">> -> "WHILE"
          [] OTHER -> "USE"]

\* C22: a word is lexed as a keyword token exactly when its whole text is
\* one of fn, let, return, if, else, while, use, with that keyword's type;
\* every other identifier-shaped word, the proper prefixes and extensions
\* of keywords included, is an IDENT token.
C22_KeywordExactlyOnWholeWord ==
    \A i \in DOMAIN lexer.calls :
        LET tok == lexer.calls[i].tok
        IN (tok.type # "ERROR" /\ identifier_shaped(tok.text)) =>
              tok.type = IF tok.text \in KeywordTexts THEN KeywordType[tok.text]
                         ELSE "IDENT"

\* The tokens of n calls of next with no peek between them.
RECURSIVE next_only(_, _)
next_only(lx, n) ==
    IF n = 0 THEN <<>>
    ELSE Then(Lexer_next(lx), LAMBDA r : <<r.tok>> \o next_only(r.lx, n - 1))

\* C23: peek returns the token that the next call of next returns and does
\* not consume it: the call that follows a peek, peek or next, returns the
\* token that peek returned, and the tokens returned by next are those
\* that next returns on the same text when no peek is ever made.
C23_PeekDoesNotConsume ==
    LET calls == lexer.calls
        nexts == SelectSeq(calls, LAMBDA c : c.op = "next")
    IN /\ \A i \in 1..(Len(calls) - 1) :
             calls[i].op = "peek" => calls[i + 1].tok = calls[i].tok
       /\ [j \in 1..Len(nexts) |-> nexts[j].tok]
             = next_only(Lexer(sm.files_, lexer.source_id_), Len(nexts))

\* Two peeks, then two nexts that return the peeked word and then a
\* different token.
C23_Witness ==
    /\ Len(lexer.calls) >= 4
    /\ lexer.calls[1].op = "peek" /\ lexer.calls[2].op = "peek"
    /\ lexer.calls[3].op = "next" /\ lexer.calls[4].op = "next"
    /\ lexer.calls[1].tok.type = "IDENT"
    /\ lexer.calls[3].tok = lexer.calls[1].tok
    /\ lexer.calls[4].tok # lexer.calls[3].tok

====
